---------------------------- MODULE Spec2Model ----------------------------
(***************************************************************************)
(* Verification model of pumpfun-watch.                                    *)
(*                                                                         *)
(*   - the Launch-Integrity Scorer scoreTokenV1 of                         *)
(*     netlify/functions/scored-feed (v1.1.0, src/netlify/functions/       *)
(*     scored-feed.js, and its predecessor v1.0.0, src/unnamed/part_001);  *)
(*   - the Multi-Module Token Analyzer analyzeToken of                     *)
(*     src/analysis/analyze.js.                                            *)
(*                                                                         *)
(* JavaScript values are records [t |-> type tag, v |-> payload].  Strings *)
(* are sequences of one-character strings, so that trim, length, regular   *)
(* expression tests, toLowerCase and slice are computed, not assumed.      *)
(* Times are milliseconds since the Unix epoch; the model's clock reads a  *)
(* small value so that every product stays inside TLC's integers.  Values  *)
(* no integer of the model can stand for (NaN, Infinity) are symbolic.     *)
(* Fractions (module weights, confidences) are scaled by 100.              *)
(***************************************************************************)
EXTENDS Integers, Sequences, FiniteSets, TLC

VARIABLES
    now,            \* Date.now(), ms
    item,           \* launch record handed to scoreTokenV1 (v1.1.0)
    onchain,        \* pre-fetched OnchainMintInfo or null
    scored,         \* TokenScored returned by scoreTokenV1 (v1.1.0)
    raw,            \* feed row handed to scoreTokenV1 (v1.0.0)
    scoredLegacy,   \* result of scoreTokenV1 (v1.0.0)
    address,        \* token address handed to analyzeToken
    signals,        \* signal bundle handed to analyzeToken
    moduleResults,  \* what the six modules returned for the bundle
    analysis,       \* AnalysisResult returned by analyzeToken
    state,          \* the application state object of app.js
    controllers,    \* aborted flag of every AbortController created so far
    runs,           \* the runAnalysis invocations, in order of invocation
    localStorage,   \* the item RECENT_STORAGE_KEY of the browser's localStorage
    loads,          \* the loadOpportunityPool invocations, in order of invocation
    SECRET,         \* process.env.PUMP_WEBHOOK_SECRET of the webhook function
    seenSet,        \* the store's set of dedupe keys (KEY_SEEN)
    launchesList,   \* the store's list of launches (KEY_LAUNCHES), head first
    hooks,          \* the webhook handler invocations, in order of arrival
    pushed,         \* history: every launch ever pushed to the list, newest first
    RL,             \* scored-feed: rate-limit table, ip -> {n, resetAt}
    CACHE,          \* scored-feed: response cache {at, payload}
    ONCHAIN,        \* scored-feed: on-chain cache, mint -> {at, data}
    served,         \* scored-feed: the last request handled and its response
    admitted,       \* history: per ip, the arrival times of the requests admitted
                    \* during the last RL_WINDOW_MS
    lookupFailed    \* history: the mints whose latest upstream lookup failed

varsScorer == <<item, onchain, scored, raw, scoredLegacy>>
varsAnalyzer == <<address, signals, moduleResults, analysis>>
varsApp == <<state, controllers, runs, localStorage, loads>>
varsHook == <<SECRET, seenSet, launchesList, hooks, pushed>>
varsFeed == <<RL, CACHE, ONCHAIN, served, admitted, lookupFailed>>
varsServices == <<varsApp, varsHook, varsFeed>>
vars == <<now, varsScorer, varsAnalyzer, varsServices>>

(***************************************************************************)
(* JavaScript values                                                       *)
(***************************************************************************)
Undefined == [t |-> "undefined", v |-> 0]
Null == [t |-> "null", v |-> 0]
NaN == [t |-> "NaN", v |-> 0]
Infinity == [t |-> "Infinity", v |-> 0]
Num(n) == [t |-> "number", v |-> n]
Str(s) == [t |-> "string", v |-> s]
Bool(b) == [t |-> "boolean", v |-> b]

\* "no call made yet" / "no input of this kind"
None == [t |-> "none", v |-> 0]

\* The application and the endpoints before anything was asked of them
AppIdle ==
    /\ state = None
    /\ controllers = <<>>
    /\ runs = <<>>
    /\ localStorage = None
    /\ loads = <<>>
HookIdle ==
    /\ SECRET = None
    /\ seenSet = {}
    /\ launchesList = <<>>
    /\ hooks = <<>>
    /\ pushed = <<>>
FeedIdle ==
    /\ RL = None
    /\ CACHE = None
    /\ ONCHAIN = None
    /\ served = None
    /\ admitted = None
    /\ lookupFailed = {}
ServicesIdle == AppIdle /\ HookIdle /\ FeedIdle

\* typeof x === "number"
IsNumber(x) == x.t \in {"number", "NaN", "Infinity"}
IsFinite(x) == x.t = "number"

Rep(c, n) == [i \in 1..n |-> c]

Min(a, b) == IF a <= b THEN a ELSE b
Max(a, b) == IF a >= b THEN a ELSE b

\* String.prototype.trim (the samples carry blanks as " ")
RECURSIVE TrimStart(_)
TrimStart(s) ==
    IF s # <<>> /\ Head(s) = " " THEN TrimStart(Tail(s)) ELSE s

RECURSIVE TrimEnd(_)
TrimEnd(s) ==
    IF s # <<>> /\ s[Len(s)] = " " THEN TrimEnd(SubSeq(s, 1, Len(s) - 1)) ELSE s

Trim(s) == TrimEnd(TrimStart(s))

\* /^[...]+$/.test(s) for a character class
TestClassPlus(s, class) == Len(s) >= 1 /\ \A i \in 1..Len(s) : s[i] \in class

(***************************************************************************)
(* scored-feed v1.1.0: shared validation                                   *)
(***************************************************************************)
BASE58_RE ==
    {"1", "2", "3", "4", "5", "6", "7", "8", "9",
     "A", "B", "C", "D", "E", "F", "G", "H", "J", "K", "L", "M", "N",
     "P", "Q", "R", "S", "T", "U", "V", "W", "X", "Y", "Z",
     "a", "b", "c", "d", "e", "f", "g", "h", "i", "j", "k",
     "m", "n", "o", "p", "q", "r", "s", "t", "u", "v", "w", "x", "y", "z"}

PubkeyMinLen == 32
PubkeyMaxLen == 44

isValidPubkey(s) ==
    IF s.t # "string" THEN FALSE
    ELSE LET v == Trim(s.v) IN
         IF Len(v) < PubkeyMinLen \/ Len(v) > PubkeyMaxLen THEN FALSE
         ELSE TestClassPlus(v, BASE58_RE)

\* new URL(String(u)): the WHATWG parser on the strings of the model.
\* ok = FALSE stands for the TypeError it throws.
\* A URL string is a one-token sequence: nothing in the code looks inside one
\* except through URL().
UrlHttps == <<"https://a.com/m">>
UrlHttp == <<"http://a.com/m">>
UrlData == <<"data:text/html,x">>
UrlPump == <<"https://pump.fun/coin">>
UrlOther == <<"https://evil.example/coin">>
UrlGarbage == <<"not a url">>
UrlJavascript == <<"javascript:alert(1)">>
UrlLongQuery == <<"https://a.com/m?q=aaaaaaaaaaaaaaaaaaaaaaaaaaaaaaaaaaaaaaaaaaaaaaaaaaaaaaaaaaaaaaaa">>

URL(u) ==
    IF u.t # "string" THEN [ok |-> FALSE, protocol |-> "", hostname |-> "", href |-> ""]
    ELSE CASE u.v = UrlHttps ->
                [ok |-> TRUE, protocol |-> "https:", hostname |-> "a.com", href |-> UrlHttps]
           [] u.v = UrlHttp ->
                [ok |-> TRUE, protocol |-> "http:", hostname |-> "a.com", href |-> UrlHttp]
           [] u.v = UrlData ->
                [ok |-> TRUE, protocol |-> "data:", hostname |-> "", href |-> UrlData]
           [] u.v = UrlJavascript ->
                [ok |-> TRUE, protocol |-> "javascript:", hostname |-> "", href |-> UrlJavascript]
           [] u.v = UrlLongQuery ->
                [ok |-> TRUE, protocol |-> "https:", hostname |-> "a.com", href |-> UrlLongQuery]
           [] u.v = UrlPump ->
                [ok |-> TRUE, protocol |-> "https:", hostname |-> "pump.fun", href |-> UrlPump]
           [] u.v = UrlOther ->
                [ok |-> TRUE, protocol |-> "https:", hostname |-> "evil.example", href |-> UrlOther]
           [] OTHER ->
                [ok |-> FALSE, protocol |-> "", hostname |-> "", href |-> ""]

\* safeHttpUrl without the test of the protocol
safeHttpUrlAnyScheme(u) ==
    LET url == URL(u) IN
    IF ~url.ok THEN Null
    ELSE Str(url.href)

safeHttpUrl(u) ==
    LET url == URL(u) IN
    IF ~url.ok THEN Null
    ELSE IF url.protocol # "https:" /\ url.protocol # "http:" THEN Null
    ELSE Str(url.href)

\* Date range: |ms| <= 8.64e15; every finite number of the model is inside it.
\* An ISO string is kept as the instant it denotes, [t |-> "iso", v |-> ms].
Iso(ms) == [t |-> "iso", v |-> ms]

toISO(v) ==
    IF IsFinite(v) THEN Iso(v.v) ELSE Null

\* new Date(isoString).getTime()
DateGetTime(iso) == iso.v

\* JavaScript truthiness of the values of the model
Truthy(x) ==
    CASE x.t = "undefined" -> FALSE
      [] x.t = "null" -> FALSE
      [] x.t = "NaN" -> FALSE
      [] x.t = "number" -> x.v # 0
      [] x.t = "string" -> x.v # <<>>
      [] x.t = "boolean" -> x.v
      [] OTHER -> TRUE

\* number * 1000
TimesThousand(x) ==
    IF IsFinite(x) THEN Num(x.v * 1000) ELSE x

clampNone(n, a, b) == n

clamp(n, a, b) == Max(a, Min(b, n))

(***************************************************************************)
(* scored-feed v1.1.0: scoreTokenV1(item, onchain)                         *)
(***************************************************************************)
HEX_RE ==
    {"0", "1", "2", "3", "4", "5", "6", "7", "8", "9",
     "a", "b", "c", "d", "e", "f", "A", "B", "C", "D", "E", "F"}

CreatorHexLen == 64

\* /^[0-9a-fA-F]{64}$/.test(s)
TestCreatorHex(s) == Len(s) = CreatorHexLen /\ \A i \in 1..Len(s) : s[i] \in HEX_RE

\* typeof x === "string" ? x.trim() : dflt
TrimmedOr(x, dflt) == IF x.t = "string" THEN Str(Trim(x.v)) ELSE dflt

mintOfUntrimmed(it) == IF it.mint.t = "string" THEN it.mint ELSE Str(<<>>)

\* const mint = typeof item?.mint === "string" ? item.mint.trim() : "";
mintOf(it) == TrimmedOr(it.mint, Str(<<>>))

BaseScore == 20
ClockSkewMs == 60000

\* `On-chain: decimals = ${n}`
DecimalsReason(n) ==
    CASE n = 6 -> "On-chain: decimals = 6"
      [] n = 9 -> "On-chain: decimals = 9"
      [] OTHER -> "On-chain: decimals = n"

\* the accumulation with one flat weight of 10 for every check
PushFlat(acc, cond, pts, r) ==
    IF cond THEN [score |-> acc.score + 10, reasons |-> Append(acc.reasons, r)]
    ELSE acc

\* One step of the additive accumulation: if (cond) { score += pts; reasons.push(r) }
Push(acc, cond, pts, r) ==
    IF cond THEN [score |-> acc.score + pts, reasons |-> Append(acc.reasons, r)]
    ELSE acc

\* The on-chain block of scoreTokenV1
OnchainChecks(acc, oc) ==
    IF oc = Null THEN
        Push(acc, TRUE, 8,
             "On-chain mint checks unavailable (RPC error/limit) - treat as unknown")
    ELSE IF ~oc.exists THEN
        Push(acc, TRUE, 45,
             "On-chain: mint account not found (could be malformed or not finalized)")
    ELSE
        LET a1 == IF Truthy(oc.mintAuthority)
                  THEN Push(acc, TRUE, 12,
                       "On-chain: mint authority is present (supply can potentially be increased)")
                  ELSE Push(acc, TRUE, 0,
                       "On-chain: mint authority appears unset (cannot mint more via authority)")
            a2 == IF Truthy(oc.freezeAuthority)
                  THEN Push(a1, TRUE, 10,
                       "On-chain: freeze authority is present (accounts can be frozen)")
                  ELSE Push(a1, TRUE, 0,
                       "On-chain: freeze authority appears unset (cannot freeze via authority)")
        IN Push(a2, IsNumber(oc.decimals), 0, DecimalsReason(oc.decimals.v))

\* The timestamp block with a future timestamp weighing more than a missing one
TimestampChecksFutureHeavier(acc, firstSeenUTC, clock) ==
    IF ~Truthy(firstSeenUTC)
    THEN Push(acc, TRUE, 8, "Missing/invalid timestamp")
    ELSE Push(acc, DateGetTime(firstSeenUTC) > clock + ClockSkewMs, 10,
              "Timestamp is in the future (clock skew or malformed event)")

\* The timestamp block of scoreTokenV1
TimestampChecks(acc, firstSeenUTC, clock) ==
    IF ~Truthy(firstSeenUTC)
    THEN Push(acc, TRUE, 8, "Missing/invalid timestamp")
    ELSE Push(acc, DateGetTime(firstSeenUTC) > clock + ClockSkewMs, 6,
              "Timestamp is in the future (clock skew or malformed event)")

\* The buckets with their upper ends left out
VerdictOfScoreStrict(score) ==
    IF score < 25 THEN "clean-ish"
    ELSE IF score < 60 THEN "caution"
    ELSE "high-risk"

\* score <= 25 -> clean-ish; <= 60 -> caution; else high-risk
VerdictOfScore(score) ==
    IF score <= 25 THEN "clean-ish"
    ELSE IF score <= 60 THEN "caution"
    ELSE "high-risk"

scoreTokenV1(it, oc, clock) ==
    LET mint == mintOf(it)
        name == TrimmedOr(it.name, Null)
        symbol == TrimmedOr(it.symbol, Null)
        uri == safeHttpUrl(it.uri)
        creatorHex == TrimmedOr(it.creatorHex, Null)
        isMayhem == IF it.isMayhem.t = "boolean" THEN it.isMayhem ELSE Null
        signature == IF it.signature.t = "string" THEN it.signature ELSE Null
        pumpUrl == IF Truthy(mint) THEN Str(<<"https://pump.fun/">> \o mint.v) ELSE Null
        tsSec == IF IsNumber(it.timestamp) THEN it.timestamp ELSE Null
        firstSeenUTC == IF Truthy(tsSec) THEN toISO(TimesThousand(tsSec)) ELSE Null
        source == "webhook:create_v2"
        sig0 == [mint |-> IF Truthy(mint) THEN mint ELSE Null,
                 name |-> name, symbol |-> symbol, uri |-> uri,
                 creatorHex |-> creatorHex, isMayhem |-> isMayhem,
                 signature |-> signature, timestamp |-> tsSec,
                 onchain |-> Undefined]
        common == [firstSeenUTC |-> firstSeenUTC, source |-> source,
                   name |-> name, symbol |-> symbol, uri |-> uri,
                   creatorHex |-> creatorHex, signature |-> signature,
                   isMayhem |-> isMayhem]
    IN
    IF ~Truthy(mint) THEN
        [fields |-> common, mint |-> Null, pumpUrl |-> Null,
         score |-> 100, verdict |-> "unknown",
         reasons |-> <<"Missing mint">>, signals |-> sig0]
    ELSE
        LET a0 == [score |-> BaseScore, reasons |-> <<>>]
            a1 == Push(a0, ~isValidPubkey(mint), 55,
                       "Mint format looks invalid (base58/length check failed)")
            a2 == Push(a1, ~Truthy(name), 10, "Missing token name in create_v2 payload")
            a3 == Push(a2, ~Truthy(symbol), 8, "Missing token symbol in create_v2 payload")
            a4 == Push(a3, ~Truthy(uri), 12, "Missing/invalid metadata URI")
            a5 == Push(a4, ~Truthy(creatorHex) \/ ~TestCreatorHex(creatorHex.v), 12,
                       "Creator bytes missing/invalid (hex length check failed)")
            a6 == Push(a5, ~Truthy(signature), 6, "Missing transaction signature")
            a7 == Push(a6, isMayhem = Bool(TRUE), 10,
                       "Flag: create_v2 indicates mayhem mode (treat as higher risk)")
            a8 == TimestampChecks(a7, firstSeenUTC, clock)
            a9 == OnchainChecks(a8, oc)
            score == clamp(a9.score, 0, 100)
            bucket == VerdictOfScore(score)
            verdict == IF ~isValidPubkey(mint) /\ (oc = Null \/ ~oc.exists)
                       THEN "unknown" ELSE bucket
            reasons == IF Len(a9.reasons) = 0
                       THEN <<"Only basic checks applied (no additional signals available)">>
                       ELSE a9.reasons
        IN [fields |-> common, mint |-> mint, pumpUrl |-> pumpUrl,
            score |-> score, verdict |-> verdict, reasons |-> reasons,
            signals |-> IF oc = Null THEN sig0 ELSE [sig0 EXCEPT !.onchain = oc]]

(***************************************************************************)
(* scored-feed v1.0.0 (src/unnamed/part_001): scoreTokenV1(raw)            *)
(***************************************************************************)
\* Date.now() of the scoring runs, ms
ScoreClockMs == 10000000

\* The one date string of the model and the instant Date parses it to.
IsoText == <<"1970-01-01T02:46:40.000Z">>
IsoTextMs == ScoreClockMs

\* toISODateLike(v): new Date(v), null when the date is invalid
toISODateLike(v) ==
    CASE v.t = "null" -> Iso(0)
      [] v.t = "number" -> Iso(v.v)
      [] v.t = "string" /\ v.v = IsoText -> Iso(IsoTextMs)
      [] OTHER -> Null

isValidBase58Mint(s) ==
    IF s.t # "string" THEN FALSE
    ELSE LET mint == Trim(s.v) IN
         IF Len(mint) < PubkeyMinLen \/ Len(mint) > PubkeyMaxLen THEN FALSE
         ELSE TestClassPlus(mint, BASE58_RE)

\* host.includes("pump.fun") on the hostnames URL() yields
HostIncludesPumpFun(host) == host = "pump.fun"

LegacyBaseScore == 35
LegacyFloor == 40

LegacyOnchainReason ==
    "On-chain checks not yet wired (authority/holders/LP signals = unknown)"

\* signals.onchain = { mintAuthority: null, ... }
LegacyOnchainSignals ==
    [mintAuthority |-> Null, freezeAuthority |-> Null, holders |-> Null,
     topHolderPct |-> Null, lpLock |-> Null]

\* if (score < 0) score = 0; if (score > 100) score = 100;
legacyClamp(n) == IF n < 0 THEN 0 ELSE IF n > 100 THEN 100 ELSE n

scoreTokenV1_v100(r) ==
    LET mint == TrimmedOr(r.mint, Str(<<>>))
        pumpUrl == safeHttpUrl(r.pumpUrl)
        firstSeenUTC == toISODateLike(r.firstSeenUTC)
        source == TrimmedOr(r.source, Str(<<>>))
        sourceOut == IF Truthy(source) THEN source ELSE Str(<<"unknown">>)
        sig == [mint |-> IF Truthy(mint) THEN mint ELSE Null,
                pumpUrl |-> pumpUrl, firstSeenUTC |-> firstSeenUTC,
                source |-> IF Truthy(source) THEN source ELSE Null,
                onchain |-> Undefined]
    IN
    IF ~Truthy(mint) THEN
        [mint |-> Null, pumpUrl |-> pumpUrl, firstSeenUTC |-> firstSeenUTC,
         source |-> sourceOut, score |-> 100, verdict |-> "unknown",
         reasons |-> <<"Missing mint">>, signals |-> sig]
    ELSE
        LET a0 == [score |-> LegacyBaseScore, reasons |-> <<>>]
            a1 == Push(a0, ~isValidBase58Mint(mint), 45,
                       "Mint format looks invalid (base58/length check failed)")
            a2 == IF ~Truthy(pumpUrl)
                  THEN Push(a1, TRUE, 20, "Missing or invalid Pump URL")
                  ELSE Push(a1, ~HostIncludesPumpFun(URL(pumpUrl).hostname), 10,
                            "Pump URL domain is unusual (not pump.fun)")
            a3 == Push(a2, ~Truthy(firstSeenUTC), 10, "Missing/invalid firstSeen timestamp")
            a4 == Push(a3, ~Truthy(source), 5, "Missing source label")
            a5 == Push(a4, TRUE, 0, LegacyOnchainReason)
            score == legacyClamp(a5.score)
            bucket == VerdictOfScore(score)
            verdict == IF ~isValidBase58Mint(mint) /\ ~Truthy(pumpUrl)
                       THEN "unknown" ELSE bucket
            only == Len(a5.reasons) = 1 /\ a5.reasons[1] = LegacyOnchainReason
        IN [mint |-> mint, pumpUrl |-> pumpUrl, firstSeenUTC |-> firstSeenUTC,
            source |-> sourceOut,
            score |-> IF only THEN Max(score, LegacyFloor) ELSE score,
            verdict |-> IF only THEN "caution" ELSE verdict,
            reasons |-> IF only
                        THEN <<"Only basic integrity checks available in v1">> \o a5.reasons
                        ELSE a5.reasons,
            signals |-> [sig EXCEPT !.onchain = LegacyOnchainSignals]]

(***************************************************************************)
(* analysis/analyze.js: weights, flag collection and deduplication         *)
(*                                                                         *)
(* Weights and confidences are scaled by 100 and sums are exact.  The      *)
(* code adds IEEE doubles; its rounding moves a sum by less than 1e-12, so *)
(* it can only differ from the exact comparison when the exact value sits  *)
(* on a threshold, and then only by deciding "below".                      *)
(***************************************************************************)
ModuleOrder ==
    <<"worthMyTime", "fakeMove", "tooLate", "deadVsSleeping",
      "holderPsychology", "rugNarrative">>

ModuleNames == {ModuleOrder[i] : i \in 1..Len(ModuleOrder)}

MODULE_WEIGHTS ==
    [worthMyTime |-> 15, fakeMove |-> 25, tooLate |-> 20,
     deadVsSleeping |-> 10, holderPsychology |-> 15, rugNarrative |-> 15]

Arr(s) == [t |-> "array", v |-> s]

\* a.b of an object that may be absent (a?.b)
Opt(o, f) == IF o.t = "object" THEN o[f] ELSE Undefined

RECURSIVE SumOver(_, _)
SumOver(f, S) ==
    IF S = {} THEN 0
    ELSE LET x == CHOOSE y \in S : TRUE IN f[x] + SumOver(f, S \ {x})

\* sum of score * weight, and sum of the weights (both times 100)
WeightedSum(mr) == SumOver([m \in ModuleNames |-> mr[m].score * MODULE_WEIGHTS[m]], ModuleNames)
TotalWeight == SumOver([m \in ModuleNames |-> MODULE_WEIGHTS[m]], ModuleNames)

\* weightedScore >= k
WeightedAtLeast(ws, k) == ws >= k * TotalWeight

\* sum of the module confidences (percent): avgConfidence times 100 * 6
ConfidenceSum(mr) == SumOver([m \in ModuleNames |-> mr[m].confidence], ModuleNames)
NumModules == Cardinality(ModuleNames)

\* avgConfidence >= pct / 100
ConfAtLeast(avg, pct) == avg >= pct * NumModules

getCriticalFlags ==
    {"lp_unlocked", "rug_risk_liquidity", "circular_trading", "wash_trading",
     "whale_dominated", "dev_dumping", "mass_exit", "bot_pattern"}

\* A raw flag is a bare key, Str(key), or an object with key, severity,
\* confidence (percent; 0 when absent) and status ("" when absent).  The
\* label, evidence and checkSource fields are carried through untouched and
\* read by no decision; they are left out.
FlagObj(k, sev, conf, st) ==
    [t |-> "object", v |-> 0, key |-> k, severity |-> sev, confidence |-> conf, status |-> st]

normalizeFlag(flag) ==
    IF flag.t = "object" /\ flag.key # "" /\ flag.severity # "" THEN
        [key |-> flag.key,
         severity |-> flag.severity,
         confidence |-> IF flag.confidence = 0 THEN 50 ELSE flag.confidence,
         status |-> IF flag.status = "" THEN "unverified" ELSE flag.status]
    ELSE
        LET key == IF flag.t = "string" THEN flag.v ELSE flag.key IN
        [key |-> key,
         severity |-> IF key \in getCriticalFlags THEN "critical" ELSE "warning",
         confidence |-> 50,
         status |-> "unverified"]

lpFlagPriority == <<"lp_unlocked", "lp_mixed", "lp_stale", "lp_unverified", "lp_unknown">>

\* the keys of the model that start with "lp_"
StartsWithLp(key) ==
    key \in {"lp_unlocked", "lp_mixed", "lp_stale", "lp_unverified", "lp_unknown", "lp_burned"}

\* lpFlagPriority.indexOf(key), 0-based, -1 when absent
IndexOfLp(key) ==
    IF \E i \in 1..Len(lpFlagPriority) : lpFlagPriority[i] = key
    THEN (CHOOSE i \in 1..Len(lpFlagPriority) : lpFlagPriority[i] = key) - 1
    ELSE -1

\* Infinity, as the initial bestLpPriority
NoLpPriority == Len(lpFlagPriority)

LpBetterFirstWins(priority, bestLpPriority) ==
    priority # -1 /\ bestLpPriority = NoLpPriority

\* priority !== -1 && priority < bestLpPriority
LpBetter(priority, bestLpPriority) ==
    priority # -1 /\ priority < bestLpPriority

\* the replacement test for a key other than an lp_ key (existing may be None)
ReplacesExisting(nf, existing) ==
    \/ existing = None
    \/ nf.severity = "critical" /\ existing.severity = "warning"
    \/ nf.confidence > existing.confidence

\* Map.get / Map.set on a map kept as the sequence of its values in insertion order
MapGet(map, key) ==
    IF \E i \in 1..Len(map) : map[i].key = key
    THEN map[CHOOSE i \in 1..Len(map) : map[i].key = key]
    ELSE None

MapSet(map, val) ==
    IF \E i \in 1..Len(map) : map[i].key = val.key
    THEN [i \in 1..Len(map) |-> IF map[i].key = val.key THEN val ELSE map[i]]
    ELSE Append(map, val)

\* every flag the modules emitted, in the order the two loops visit them
RECURSIVE EmittedFlagsFrom(_, _)
EmittedFlagsFrom(mr, i) ==
    IF i > Len(ModuleOrder) THEN <<>>
    ELSE LET fl == mr[ModuleOrder[i]].flags IN
         (IF Truthy(fl) THEN fl.v ELSE <<>>) \o EmittedFlagsFrom(mr, i + 1)

EmittedFlags(mr) == EmittedFlagsFrom(mr, 1)

\* the body of the inner loop, applied to the flags from position i on
RECURSIVE CollectLoop(_, _, _)
CollectLoop(flags, i, acc) ==
    IF i > Len(flags) THEN acc
    ELSE
        LET nf == normalizeFlag(flags[i]) IN
        IF StartsWithLp(nf.key) THEN
            LET priority == IndexOfLp(nf.key) IN
            IF LpBetter(priority, acc.bestLpPriority)
            THEN CollectLoop(flags, i + 1,
                     [acc EXCEPT !.bestLpPriority = priority, !.bestLpFlag = nf])
            ELSE CollectLoop(flags, i + 1, acc)
        ELSE
            IF ReplacesExisting(nf, MapGet(acc.flagMap, nf.key))
            THEN CollectLoop(flags, i + 1, [acc EXCEPT !.flagMap = MapSet(@, nf)])
            ELSE CollectLoop(flags, i + 1, acc)

\* the comparator of the final sort is negative: a goes before b
FlagSortsBefore(a, b) ==
    \/ a.severity = "critical" /\ b.severity # "critical"
    \/ /\ ~(b.severity = "critical" /\ a.severity # "critical")
       /\ b.confidence - a.confidence < 0

\* Array.prototype.sort is stable: insertion after the last element that
\* does not sort after x
RECURSIVE InsertFlag(_, _)
InsertFlag(sorted, x) ==
    IF sorted = <<>> THEN <<x>>
    ELSE IF FlagSortsBefore(x, sorted[Len(sorted)])
         THEN Append(InsertFlag(SubSeq(sorted, 1, Len(sorted) - 1), x), sorted[Len(sorted)])
         ELSE Append(sorted, x)

RECURSIVE SortFlags(_, _)
SortFlags(list, i) ==
    IF i = 0 THEN <<>> ELSE InsertFlag(SortFlags(list, i - 1), list[i])

collectAndDeduplicateFlags(mr) ==
    LET acc == CollectLoop(EmittedFlags(mr), 1,
                   [flagMap |-> <<>>, bestLpFlag |-> None, bestLpPriority |-> NoLpPriority])
        all == IF acc.bestLpFlag # None THEN MapSet(acc.flagMap, acc.bestLpFlag)
               ELSE acc.flagMap
    IN SortFlags(all, Len(all))

(***************************************************************************)
(* analysis/analyze.js: verdict determination and data quality             *)
(***************************************************************************)
\* timingNote = null
NullNote == "null"

\* moduleResults.x?.score || 50
ScoreOrDefault(score) == IF score = 0 THEN 50 ELSE score

hasCriticalVerifiedRisk(flags) ==
    \E i \in 1..Len(flags) : flags[i].severity = "critical" /\ flags[i].status = "verified"

HasFakeVolumeFlag(flags) ==
    \E i \in 1..Len(flags) : flags[i].key \in {"circular_trading", "wash_trading", "bot_pattern"}

HasCriticalFlag(flags) ==
    \E i \in 1..Len(flags) : flags[i].severity = "critical"

CriticalExitConfidenceLoose(avgConfidence) ==
    IF ConfAtLeast(avgConfidence, 60) THEN "HIGH" ELSE "MEDIUM"

\* the confidence of the first EXIT branch
CriticalExitConfidence(avgConfidence) ==
    IF ConfAtLeast(avgConfidence, 70) THEN "HIGH" ELSE "MEDIUM"

\* the if / else-if chain of determineVerdict, before the two adjustments
VerdictBranch(weightedScore, avgConfidence, mr, flags, dataQuality, isVeryNew) ==
    LET fakeMoveScore == ScoreOrDefault(mr.fakeMove.score)
        tooLateScore == ScoreOrDefault(mr.tooLate.score)
        rugScore == ScoreOrDefault(mr.rugNarrative.score)
    IN
    IF hasCriticalVerifiedRisk(flags) THEN
        [verdict |-> "EXIT",
         confidence |-> CriticalExitConfidence(avgConfidence),
         timingNote |-> "Critical verified risk detected - avoid this token."]
    ELSE IF rugScore < 35 THEN
        [verdict |-> "EXIT",
         confidence |-> IF ConfAtLeast(avgConfidence, 60) THEN "HIGH" ELSE "MEDIUM",
         timingNote |-> "Rug risk signals too high - exit or avoid."]
    ELSE IF fakeMoveScore < 30 /\ HasFakeVolumeFlag(flags) THEN
        [verdict |-> "EXIT",
         confidence |-> "MEDIUM",
         timingNote |-> "Fake volume patterns detected - likely manipulation."]
    ELSE IF /\ WeightedAtLeast(weightedScore, 68)
            /\ fakeMoveScore >= 55
            /\ tooLateScore >= 50
            /\ rugScore >= 55
            /\ ~HasCriticalFlag(flags)
            /\ dataQuality = "full" THEN
        [verdict |-> "ENTER",
         confidence |-> IF isVeryNew THEN "LOW"
                        ELSE IF ConfAtLeast(avgConfidence, 70) THEN "HIGH"
                        ELSE IF ConfAtLeast(avgConfidence, 50) THEN "MEDIUM"
                        ELSE "LOW",
         timingNote |-> IF isVeryNew
                        THEN "Very new token - limited history to verify. Size accordingly."
                        ELSE IF tooLateScore < 60
                        THEN "Entry window may be narrowing - watch for distribution signs."
                        ELSE NullNote]
    ELSE IF /\ WeightedAtLeast(weightedScore, 50)
            /\ rugScore >= 45
            /\ (tooLateScore < 55 \/ fakeMoveScore >= 45) THEN
        [verdict |-> "WAIT",
         confidence |-> IF ConfAtLeast(avgConfidence, 60) THEN "MEDIUM" ELSE "LOW",
         timingNote |-> IF tooLateScore < 50
                        THEN "Already moved significantly - wait for pullback or confirmation."
                        ELSE IF fakeMoveScore < 55
                        THEN "Some volume patterns unclear - monitor for organic confirmation."
                        ELSE IF isVeryNew
                        THEN "Too early to assess reliably - check back in a few hours."
                        ELSE "Mixed signals - wait for clearer setup."]
    ELSE
        [verdict |-> "IGNORE",
         confidence |-> IF ConfAtLeast(avgConfidence, 60) THEN "MEDIUM" ELSE "LOW",
         timingNote |-> IF ~WeightedAtLeast(weightedScore, 40)
                        THEN "Insufficient quality signals - not worth your attention."
                        ELSE IF Len(flags) > 4
                        THEN "Too many risk flags to justify attention."
                        ELSE NullNote]

AdjustForDataQualityNone(confidence, dataQuality) == confidence

\* if (dataQuality === 'partial' && confidence === 'HIGH') confidence = 'MEDIUM'
AdjustForDataQuality(confidence, dataQuality) ==
    IF dataQuality = "partial" /\ confidence = "HIGH" THEN "MEDIUM" ELSE confidence

determineVerdict(weightedScore, avgConfidence, mr, flags, dataQuality, isPumpFun, isVeryNew) ==
    LET b == VerdictBranch(weightedScore, avgConfidence, mr, flags, dataQuality, isVeryNew)
        c1 == AdjustForDataQuality(b.confidence, dataQuality)
        pump == isPumpFun /\ isVeryNew /\ b.verdict = "ENTER"
    IN [verdict |-> b.verdict,
        confidence |-> IF pump /\ c1 = "HIGH" THEN "MEDIUM" ELSE c1,
        timingNote |-> IF pump /\ b.timingNote = NullNote
                       THEN "New pump.fun token - high volatility expected."
                       ELSE b.timingNote]

\* score >= total * 0.7 over the five points of the two providers
determineDataQuality(sig) ==
    LET h1 == IF Opt(sig.helius, "success") # Bool(FALSE) THEN 1 ELSE 0
        h2 == IF h1 = 1 /\ Truthy(Opt(sig.helius, "tokenInfo")) THEN 1 ELSE 0
        h3 == IF h1 = 1 /\ Truthy(Opt(sig.helius, "holderDistribution")) THEN 1 ELSE 0
        d1 == IF Truthy(Opt(sig.dexscreener, "success")) THEN 1 ELSE 0
        d2 == IF d1 = 1 /\ Truthy(Opt(sig.dexscreener, "lpLock")) THEN 1 ELSE 0
        score == h1 + h2 + h3 + d1 + d2
        total == 3 + 2
    IN IF 10 * score >= total * 7 THEN "full" ELSE "partial"

(***************************************************************************)
(* analysis/analyze.js: reason collection and selection                    *)
(***************************************************************************)
\* String.prototype.toLowerCase on the letters of the model
LowerChar(c) == IF c = "A" THEN "a" ELSE c
ToLowerCase(s) == [i \in 1..Len(s) |-> LowerChar(s[i])]

PrefixLen == 30
MinReasons == 3
MaxSelected == 5
MinReasonConfidence == 30

\* text.toLowerCase().slice(0, 30)
NormalizedPrefix(text) == SubSeq(ToLowerCase(text), 1, Min(PrefixLen, Len(text)))

RECURSIVE ReasonsOf(_, _, _)
ReasonsOf(name, res, i) ==
    IF i > Len(res.reasons.v) THEN <<>>
    ELSE <<[text |-> res.reasons.v[i], module |-> name,
            score |-> res.score, confidence |-> res.confidence]>>
         \o ReasonsOf(name, res, i + 1)

RECURSIVE CollectReasonsFrom(_, _)
CollectReasonsFrom(mr, i) ==
    IF i > Len(ModuleOrder) THEN <<>>
    ELSE LET name == ModuleOrder[i] IN
         (IF Truthy(mr[name].reasons) THEN ReasonsOf(name, mr[name], 1) ELSE <<>>)
         \o CollectReasonsFrom(mr, i + 1)

collectReasons(mr) == CollectReasonsFrom(mr, 1)

\* the sign of the comparator of filtered.sort
ReasonCompare(a, b, verdict) ==
    IF verdict = "EXIT" /\ a.module \in {"rugNarrative", "fakeMove"} THEN -1
    ELSE IF verdict = "EXIT" /\ b.module \in {"rugNarrative", "fakeMove"} THEN 1
    ELSE IF verdict = "ENTER" /\ a.score >= 60 /\ b.score < 60 THEN -1
    ELSE IF verdict = "ENTER" /\ b.score >= 60 /\ a.score < 60 THEN 1
    ELSE b.confidence * MODULE_WEIGHTS[b.module] - a.confidence * MODULE_WEIGHTS[a.module]

\* filtered.sort(comparator).  With a comparator that is an order every
\* engine returns the same (stable) result.  For EXIT the comparator is not
\* an order (two rug/fakeMove reasons each sort before the other), so the
\* result depends on how the engine calls it; two insertion sorts stand for
\* the engines: "linear" shifts x left past every e with compare(e, x) > 0,
\* "binary" searches the position with compare(x, e) < 0.
SortEngines == {"linear", "binary"}

RECURSIVE InsertLinear(_, _, _)
InsertLinear(sorted, x, verdict) ==
    IF sorted = <<>> THEN <<x>>
    ELSE IF ReasonCompare(sorted[Len(sorted)], x, verdict) > 0
         THEN Append(InsertLinear(SubSeq(sorted, 1, Len(sorted) - 1), x, verdict),
                     sorted[Len(sorted)])
         ELSE Append(sorted, x)

RECURSIVE BinaryPosition(_, _, _, _, _)
BinaryPosition(sorted, x, left, right, verdict) ==
    IF left >= right THEN left
    ELSE LET mid == left + (right - left) \div 2 IN
         IF ReasonCompare(x, sorted[mid + 1], verdict) < 0
         THEN BinaryPosition(sorted, x, left, mid, verdict)
         ELSE BinaryPosition(sorted, x, mid + 1, right, verdict)

InsertBinary(sorted, x, verdict) ==
    LET pos == BinaryPosition(sorted, x, 0, Len(sorted), verdict) IN
    SubSeq(sorted, 1, pos) \o <<x>> \o SubSeq(sorted, pos + 1, Len(sorted))

RECURSIVE SortReasons(_, _, _, _)
SortReasons(list, i, verdict, engine) ==
    IF i = 0 THEN <<>>
    ELSE LET before == SortReasons(list, i - 1, verdict, engine) IN
         IF engine = "linear" THEN InsertLinear(before, list[i], verdict)
         ELSE InsertBinary(before, list[i], verdict)

\* the loop "take top 3-5 unique reasons"
RECURSIVE TakeUnique(_, _, _, _)
TakeUnique(filtered, i, selected, seen) ==
    IF i > Len(filtered) \/ Len(selected) >= MaxSelected THEN selected
    ELSE LET normalized == NormalizedPrefix(filtered[i].text) IN
         IF normalized \in seen THEN TakeUnique(filtered, i + 1, selected, seen)
         ELSE TakeUnique(filtered, i + 1, Append(selected, filtered[i].text),
                         seen \cup {normalized})

GenericReason(verdict) ==
    CASE verdict = "ENTER" -> <<"Structural signals look acceptable">>
      [] verdict = "IGNORE" -> <<"Not enough evidence to warrant attention">>
      [] verdict = "WAIT" -> <<"Timing or signal clarity needs improvement">>
      [] verdict = "EXIT" -> <<"Risk signals outweigh potential upside">>

selectBestReasons(allReasons, verdict, engine) ==
    LET filtered == SelectSeq(allReasons, LAMBDA r : r.confidence >= MinReasonConfidence)
        sorted == SortReasons(filtered, Len(filtered), verdict, engine)
        selected == TakeUnique(sorted, 1, <<>>, {})
        ensured == IF Len(selected) < MinReasons
                   THEN Append(selected, GenericReason(verdict))
                   ELSE selected
    IN SubSeq(ensured, 1, Min(MaxSelected, Len(ensured)))

(***************************************************************************)
(* analysis/analyze.js: analyzeToken                                       *)
(***************************************************************************)
SixHoursMs == 6 * 60 * 60 * 1000
VeryNewCap == 55

\* Date.now() - createdAt < 6h, false when createdAt is absent or 0
IsVeryNew(sig, clock) ==
    LET createdAt == Opt(Opt(sig.helius, "metadata"), "createdAt") IN
    IF Truthy(createdAt) THEN clock - createdAt.v < SixHoursMs ELSE FALSE

IsPumpFun(sig) == Truthy(Opt(Opt(sig.helius, "metadata"), "isPumpFunOrigin"))

CapConfidenceNone(avgConfidence, isVeryNew) == avgConfidence

\* if (isVeryNew) avgConfidence = Math.min(avgConfidence, 0.55)
CapConfidence(avgConfidence, isVeryNew) ==
    IF isVeryNew THEN Min(avgConfidence, VeryNewCap * NumModules) ELSE avgConfidence

\* x || null
OrNull(x) == IF Truthy(x) THEN x ELSE Null

buildTokenInfo(sig) ==
    LET metadata == Opt(sig.helius, "metadata")
        tokenInfo == Opt(sig.helius, "tokenInfo")
    IN [symbol |-> OrNull(Opt(metadata, "symbol")),
        name |-> OrNull(Opt(metadata, "name")),
        holders |-> OrNull(Opt(tokenInfo, "holders")),
        liquidity |-> OrNull(Opt(tokenInfo, "liquidity")),
        volume24h |-> OrNull(Opt(tokenInfo, "volume24h")),
        isPumpFunOrigin |-> IsPumpFun(sig),
        createdAt |-> OrNull(Opt(metadata, "createdAt"))]

analyzeToken(addr, sig, mr, clock, engine) ==
    LET weightedScore == WeightedSum(mr)
        allFlags == collectAndDeduplicateFlags(mr)
        allReasons == collectReasons(mr)
        dataQuality == determineDataQuality(sig)
        isPumpFun == IsPumpFun(sig)
        isVeryNew == IsVeryNew(sig, clock)
        avgConfidence == CapConfidence(ConfidenceSum(mr), isVeryNew)
        v == determineVerdict(weightedScore, avgConfidence, mr, allFlags,
                              dataQuality, isPumpFun, isVeryNew)
    IN [t |-> "object", v |-> 0,
        input |-> addr,
        verdict |-> v.verdict,
        confidence |-> v.confidence,
        reasons |-> selectBestReasons(allReasons, v.verdict, engine),
        riskFlags |-> allFlags,
        timingNote |-> v.timingNote,
        dataQuality |-> dataQuality,
        moduleScores |-> [m \in ModuleNames |->
                             [score |-> mr[m].score, confidence |-> mr[m].confidence]],
        tokenInfo |-> buildTokenInfo(sig),
        timestamp |-> clock]

(***************************************************************************)
(* Inputs of the scorer                                                    *)
(***************************************************************************)
ValidMint == Rep("A", 32)

MintSamples ==
    {Undefined, Null, Num(7), Str(<<>>), Str(<<" ", " ">>),
     Str(Rep("A", 31)), Str(Rep("0", 32)), Str(ValidMint),
     Str(<<" ">> \o Rep("z", 44) \o <<" ">>), Str(Rep("A", 45))}

NameSamples == {Undefined, Str(<<" ">>), Str(<<"X">>)}
SymbolSamples == {Null, Str(<<"X">>)}
UriSamples ==
    {Undefined, Str(UrlHttps), Str(UrlHttp), Str(UrlData), Str(UrlGarbage),
     Str(UrlJavascript), Str(UrlLongQuery)}
CreatorSamples ==
    {Undefined, Str(Rep("a", 64)), Str(Rep("a", 63)), Str(<<" ">> \o Rep("g", 64))}
SignatureSamples == {Undefined, Str(<<>>), Str(<<"s", "i", "g">>)}
TimestampSamples ==
    {Undefined, Num(0), NaN, Infinity,
     Num(ScoreClockMs \div 1000), Num(ScoreClockMs \div 1000 + 60),
     Num(ScoreClockMs \div 1000 + 61)}
MayhemSamples == {Bool(TRUE), Bool(FALSE), Str(<<"t", "r", "u", "e">>)}

Items ==
    [mint : MintSamples, name : NameSamples, symbol : SymbolSamples,
     uri : UriSamples, creatorHex : CreatorSamples, signature : SignatureSamples,
     timestamp : TimestampSamples, isMayhem : MayhemSamples]

OnchainInfo(ex, ma, fa, dec) ==
    [t |-> "object", v |-> 0, exists |-> ex, mintAuthority |-> ma,
     freezeAuthority |-> fa, decimals |-> dec, isInitialized |-> Null]

OnchainSamples ==
    {Null,
     OnchainInfo(FALSE, Null, Null, Null),
     OnchainInfo(TRUE, Null, Null, Num(6)),
     OnchainInfo(TRUE, Str(<<"present">>), Null, Null),
     OnchainInfo(TRUE, Null, Str(<<"present">>), Num(9)),
     OnchainInfo(TRUE, Str(<<"present">>), Str(<<"present">>), Num(6))}

Raws ==
    [mint : MintSamples,
     pumpUrl : {Undefined, Str(UrlPump), Str(UrlOther), Str(UrlData), Str(UrlGarbage)},
     firstSeenUTC : {Undefined, Null, NaN, Num(ScoreClockMs), Str(IsoText), Str(UrlGarbage)},
     source : {Undefined, Str(<<" ">>), Str(<<"p", "f">>)}]

AnalyzerIdle ==
    address = None /\ signals = None /\ moduleResults = None /\ analysis = None

InitScore ==
    /\ now = ScoreClockMs
    /\ scored = None
    /\ scoredLegacy = None
    /\ \/ item \in Items /\ onchain \in OnchainSamples /\ raw = None
       \/ raw \in Raws /\ item = None /\ onchain = Null
    /\ AnalyzerIdle
    /\ ServicesIdle

\* One call of scoreTokenV1 (v1.1.0) on the record at hand
ScoreToken ==
    /\ item # None
    /\ scored = None
    /\ scored' = scoreTokenV1(item, onchain, now)
    /\ UNCHANGED <<now, item, onchain, raw, scoredLegacy, varsAnalyzer, varsServices>>

\* One call of scoreTokenV1 (v1.0.0) on the feed row at hand
ScoreTokenLegacy ==
    /\ raw # None
    /\ scoredLegacy = None
    /\ scoredLegacy' = scoreTokenV1_v100(raw)
    /\ UNCHANGED <<now, item, onchain, raw, scored, varsAnalyzer, varsServices>>

NextScore == ScoreToken \/ ScoreTokenLegacy

SpecScore == InitScore /\ [][NextScore]_vars

(***************************************************************************)
(* C1: every result of scoreTokenV1 has an integer score in 0..100, a      *)
(* verdict among clean-ish, caution, high-risk, unknown, and at least one  *)
(* reason, whatever the record and the on-chain information are.           *)
(***************************************************************************)
ScoreVerdicts == {"clean-ish", "caution", "high-risk", "unknown"}

WellFormedScore(r) ==
    /\ r.score \in 0..100
    /\ r.verdict \in ScoreVerdicts
    /\ Len(r.reasons) >= 1

C1_ScoreBounded ==
    /\ scored # None => WellFormedScore(scored)
    /\ scoredLegacy # None => WellFormedScore(scoredLegacy)

\* a record whose accumulated points exceed 100 on the non-terminal path
C1_Witness ==
    /\ scored # None
    /\ scored.score = 100
    /\ scored.verdict = "high-risk"
    /\ Len(scored.reasons) >= 8

(***************************************************************************)
(* C2: a missing mint (absent, null, not a string, or empty once trimmed)  *)
(* gives score 100, verdict unknown and exactly one reason, whatever the   *)
(* other fields and the on-chain information are.                          *)
(***************************************************************************)
MintMissing(m) == m.t # "string" \/ \A i \in 1..Len(m.v) : m.v[i] = " "

Terminal(r) ==
    /\ r.score = 100
    /\ r.verdict = "unknown"
    /\ r.reasons = <<"Missing mint">>

C2_MissingMintTerminal ==
    /\ (scored # None /\ MintMissing(item.mint)) => Terminal(scored)
    /\ (scoredLegacy # None /\ MintMissing(raw.mint)) => Terminal(scoredLegacy)

\* a blank-only mint with every other field in order and the mint account found
C2_Witness ==
    /\ scored # None
    /\ item.mint = Str(<<" ", " ">>)
    /\ item.name = Str(<<"X">>)
    /\ item.uri = Str(UrlHttps)
    /\ onchain # Null
    /\ onchain.exists
    /\ Terminal(scored)

(***************************************************************************)
(* Inputs of the analyzer.  The six modules are black boxes: their results *)
(* are inputs, drawn from the ModuleResult contract (score 0..100,         *)
(* confidence 0..1, optional reasons and flags).                           *)
(***************************************************************************)
\* Date.now() of the analysis runs, ms
AnalyzeClockMs == 30000000

ScorerIdle ==
    item = None /\ onchain = Null /\ scored = None /\ raw = None /\ scoredLegacy = None

Obj(fields) == [t |-> "object", v |-> 0] @@ fields

TokenAddress == Str(ValidMint)

TokenInfoSample == Obj([holders |-> Num(120), liquidity |-> Num(0), volume24h |-> Undefined])
HoldersSample == Obj([top10 |-> Num(40)])
LpLockSample == Obj([locked |-> Bool(TRUE)])

Metadata(createdAt, pump) ==
    Obj([createdAt |-> createdAt, isPumpFunOrigin |-> pump,
         symbol |-> Str(<<"X">>), name |-> Undefined])

Helius(success, tokenInfo, holders, metadata) ==
    Obj([success |-> success, tokenInfo |-> tokenInfo,
         holderDistribution |-> holders, metadata |-> metadata])

Dexscreener(success, lpLock) == Obj([success |-> success, lpLock |-> lpLock])

CreatedOld == Num(AnalyzeClockMs - SixHoursMs)
CreatedNew == Num(AnalyzeClockMs - SixHoursMs + 1)
CreatedHourAgo == Num(AnalyzeClockMs - 3600000)

MetadataSamples ==
    {Undefined,
     Metadata(Undefined, Bool(TRUE)),
     Metadata(CreatedOld, Undefined),
     Metadata(CreatedOld, Bool(TRUE)),
     Metadata(CreatedNew, Undefined),
     Metadata(CreatedHourAgo, Bool(TRUE))}

\* full data; a failed market-data provider; one missing section; no provider
SignalSamples ==
    {[helius |-> Helius(Bool(TRUE), TokenInfoSample, HoldersSample, md),
      dexscreener |-> Dexscreener(Bool(TRUE), LpLockSample)] : md \in MetadataSamples}
    \cup
    {[helius |-> Helius(Undefined, TokenInfoSample, HoldersSample, Metadata(c, Bool(TRUE))),
      dexscreener |-> Dexscreener(Bool(FALSE), LpLockSample)] :
        c \in {CreatedOld, CreatedHourAgo}}
    \cup
    {[helius |-> Helius(Bool(FALSE), Undefined, HoldersSample, Undefined),
      dexscreener |-> Dexscreener(Bool(TRUE), Undefined)],
     [helius |-> Undefined, dexscreener |-> Undefined]}

FullOldSignals ==
    [helius |-> Helius(Bool(TRUE), TokenInfoSample, HoldersSample,
                       Metadata(CreatedOld, Undefined)),
     dexscreener |-> Dexscreener(Bool(TRUE), LpLockSample)]

ModuleIndex(name) == CHOOSE i \in 1..Len(ModuleOrder) : ModuleOrder[i] = name

\* Reason texts: the first reason of the first three modules shares its first
\* 30 characters (up to case) with the others'; every other text is unique.
ModuleLetter == <<"b", "A", "c", "d", "e", "f">>

ReasonText(mi, i) ==
    IF i = 1 /\ mi <= 3
    THEN Rep(IF mi = 2 THEN "A" ELSE "a", PrefixLen) \o <<ModuleLetter[mi]>>
    ELSE Rep(ModuleLetter[mi], i)

\* the first k reasons of module mi; an absent list for an odd module with none
ReasonList(mi, k) ==
    IF k = 0 /\ mi % 2 = 1 THEN Undefined
    ELSE Arr([i \in 1..k |-> ReasonText(mi, i)])

ModuleResult(score, confidence, reasons, flags) ==
    [score |-> score, confidence |-> confidence, reasons |-> reasons, flags |-> flags]

\* module results from per-module scores, confidences, reason counts and flags
Results(scores, confs, counts, flags) ==
    [m \in ModuleNames |->
        ModuleResult(scores[m], confs[m], ReasonList(ModuleIndex(m), counts[m]), flags[m])]

Uniform(x) == [m \in ModuleNames |-> x]

NoFlags == [m \in ModuleNames |-> IF m = "worthMyTime" THEN Undefined ELSE Arr(<<>>)]

ScoresOf(w, f, t, d, h, r) ==
    [worthMyTime |-> w, fakeMove |-> f, tooLate |-> t,
     deadVsSleeping |-> d, holderPsychology |-> h, rugNarrative |-> r]

\* ---- inputs of SpecVerdict: scores around every threshold ----
FakeMoveScores == {0, 29, 30, 55, 100}
TooLateScores == {0, 49, 50, 100}
RugScores == {0, 1, 34, 35, 55, 100}
DeadVsSleepingScores == {59, 60}

VerdictScores ==
    {ScoresOf(100, f, t, d, 100, r) :
        f \in FakeMoveScores, t \in TooLateScores,
        d \in DeadVsSleepingScores, r \in RugScores}

\* confidences: uniform ones on and off the thresholds, and two mixed ones
\* whose mean is exactly 0.70 and just below it
ConfProfiles ==
    {Uniform(c) : c \in {20, 60, 70, 100}}
    \cup {[Uniform(64) EXCEPT !.worthMyTime = 100],
          [Uniform(70) EXCEPT !.rugNarrative = 69]}

VerdictFlagLists ==
    {Undefined,
     Arr(<<Str("wash_trading")>>),
     Arr(<<FlagObj("dev_dumping", "critical", 90, "verified")>>),
     Arr(<<FlagObj("circular_trading", "warning", 0, "")>>),
     Arr(<<FlagObj("low_volume", "warning", 80, "verified")>>)}

InitVerdict ==
    /\ now = AnalyzeClockMs
    /\ ScorerIdle
    /\ address = TokenAddress
    /\ signals \in SignalSamples
    /\ \E sc \in VerdictScores, cf \in ConfProfiles, fl \in VerdictFlagLists :
          moduleResults = Results(sc, cf, Uniform(1), [NoFlags EXCEPT !.fakeMove = fl])
    /\ analysis = None
    /\ ServicesIdle

\* One call of analyzeToken on the bundle at hand
AnalyzeToken ==
    /\ signals # None
    /\ analysis = None
    /\ \E engine \in SortEngines :
          analysis' = analyzeToken(address, signals, moduleResults, now, engine)
    /\ UNCHANGED <<now, varsScorer, address, signals, moduleResults, varsServices>>

NextAnalyze == AnalyzeToken

SpecVerdict == InitVerdict /\ [][NextAnalyze]_vars

\* ---- inputs of SpecFlags: up to MaxFlags flags, split over two modules ----
MaxFlags == 3

FlagSamples ==
    {Str("lp_unlocked"), Str("lp_stale"), Str("lp_unknown"), Str("lp_burned"),
     FlagObj("lp_mixed", "warning", 80, "verified"),
     FlagObj("lp_unverified", "warning", 0, ""),
     FlagObj("dev_dumping", "critical", 50, "verified"),
     FlagObj("dev_dumping", "warning", 90, "unverified"),
     FlagObj("dev_dumping", "warning", 50, ""),
     FlagObj("low_volume", "", 90, "verified"),
     Str("low_volume")}

FlagSeqs == UNION {[1..k -> FlagSamples] : k \in 0..MaxFlags}

AllHigh == ScoresOf(100, 100, 100, 100, 100, 100)

InitFlags ==
    /\ now = AnalyzeClockMs
    /\ ScorerIdle
    /\ address = TokenAddress
    /\ signals = FullOldSignals
    /\ \E fs \in FlagSeqs, cut \in 0..MaxFlags :
          /\ cut <= Len(fs)
          /\ moduleResults =
                Results(AllHigh, Uniform(80), Uniform(1),
                        [NoFlags EXCEPT !.fakeMove = Arr(SubSeq(fs, 1, cut)),
                                        !.rugNarrative = Arr(SubSeq(fs, cut + 1, Len(fs)))])
    /\ analysis = None
    /\ ServicesIdle

SpecFlags == InitFlags /\ [][NextAnalyze]_vars

\* ---- inputs of SpecReasons: up to MaxReasons reasons per module ----
MaxReasons == 2

\* one score profile per verdict: ENTER, EXIT, WAIT, IGNORE
ReasonScores ==
    {ScoresOf(100, 100, 50, 100, 100, 100),
     ScoresOf(100, 100, 100, 100, 100, 10),
     ScoresOf(100, 30, 50, 100, 100, 100),
     ScoresOf(20, 20, 20, 20, 20, 40)}

ReasonConfProfiles ==
    {Uniform(80), Uniform(20),
     [m \in ModuleNames |-> IF ModuleIndex(m) % 2 = 1 THEN 20 ELSE 80],
     [Uniform(30) EXCEPT !.fakeMove = 29]}

InitReasons ==
    /\ now = AnalyzeClockMs
    /\ ScorerIdle
    /\ address = TokenAddress
    /\ signals = FullOldSignals
    /\ \E sc \in ReasonScores, cf \in ReasonConfProfiles,
          counts \in [ModuleNames -> 0..MaxReasons] :
          moduleResults = Results(sc, cf, counts, NoFlags)
    /\ analysis = None
    /\ ServicesIdle

SpecReasons == InitReasons /\ [][NextAnalyze]_vars

(***************************************************************************)
(* Readings of the state shared by the analyzer's claims                   *)
(***************************************************************************)
Analyzed == analysis # None

RawKey(flag) == IF flag.t = "string" THEN flag.v ELSE flag.key

\* the normalized versions the modules emitted under a key
EmittedVersions(key) ==
    {normalizeFlag(EmittedFlags(moduleResults)[i]) :
        i \in {j \in 1..Len(EmittedFlags(moduleResults)) :
                  RawKey(EmittedFlags(moduleResults)[j]) = key}}

EmittedKeys ==
    {RawKey(EmittedFlags(moduleResults)[i]) : i \in 1..Len(EmittedFlags(moduleResults))}

\* positions of the aggregated list that hold a given key
Surviving(key) == {i \in 1..Len(analysis.riskFlags) : analysis.riskFlags[i].key = key}

MeanConfidenceAtLeast(pct) == ConfidenceSum(moduleResults) >= pct * 6

RugScore == moduleResults.rugNarrative.score

(***************************************************************************)
(* C3: whenever the rug-narrative score is below 35 (any value 0..34) the  *)
(* verdict is EXIT, whatever else the bundle holds.  The code reads the    *)
(* score as `score || 50`, so a score of exactly 0 is taken for 50.        *)
(***************************************************************************)
C3_RugBelow35Exits ==
    (Analyzed /\ RugScore < 35) => analysis.verdict = "EXIT"

(***************************************************************************)
(* C4: a flag that is critical and verified in the aggregated list makes   *)
(* the verdict EXIT, with confidence HIGH only when the mean confidence is *)
(* at least 0.7 and MEDIUM otherwise, never LOW.                           *)
(***************************************************************************)
C4_CriticalVerifiedExits ==
    (Analyzed /\ hasCriticalVerifiedRisk(analysis.riskFlags)) =>
        /\ analysis.verdict = "EXIT"
        /\ analysis.confidence \in {"HIGH", "MEDIUM"}
        /\ analysis.confidence = "HIGH" => MeanConfidenceAtLeast(70)

\* a verified critical flag on a bundle whose scores alone would say ENTER
C4_Witness ==
    /\ Analyzed
    /\ hasCriticalVerifiedRisk(analysis.riskFlags)
    /\ RugScore = 100
    /\ moduleResults.fakeMove.score = 100
    /\ moduleResults.tooLate.score = 100
    /\ analysis.dataQuality = "full"
    /\ analysis.verdict = "EXIT"
    /\ analysis.confidence = "HIGH"

(***************************************************************************)
(* C5: the verdict is ENTER only if the weighted score is at least 68, the *)
(* fake-move score at least 55, the too-late score at least 50, the rug    *)
(* score at least 55, no aggregated flag is critical and the data quality  *)
(* is full; the scores are the modules' actual outputs, 0 included.        *)
(***************************************************************************)
C5_EnterOnlyIfAllHold ==
    (Analyzed /\ analysis.verdict = "ENTER") =>
        /\ WeightedSum(moduleResults) >= 68 * 100
        /\ moduleResults.fakeMove.score >= 55
        /\ moduleResults.tooLate.score >= 50
        /\ RugScore >= 55
        /\ ~HasCriticalFlag(analysis.riskFlags)
        /\ analysis.dataQuality = "full"

(***************************************************************************)
(* C6: the reasons list of every AnalysisResult has 3 to 5 entries.        *)
(***************************************************************************)
C6_ReasonCount3To5 ==
    Analyzed => Len(analysis.reasons) \in 3..5

(***************************************************************************)
(* C7: the aggregated flags hold at most one lp_ flag; when a module       *)
(* emitted one of lp_unlocked, lp_mixed, lp_stale, lp_unverified,          *)
(* lp_unknown, exactly one survives and it is the emitted key that comes   *)
(* first in that order, whatever the order of emission.                    *)
(***************************************************************************)
LpSurvivors == {i \in 1..Len(analysis.riskFlags) : StartsWithLp(analysis.riskFlags[i].key)}

EmittedLpRanks == {i \in 1..Len(lpFlagPriority) : lpFlagPriority[i] \in EmittedKeys}

C7_OneLpFlagHighestPriority ==
    Analyzed =>
        /\ Cardinality(LpSurvivors) <= 1
        /\ EmittedLpRanks # {} =>
              /\ Cardinality(LpSurvivors) = 1
              /\ \A i \in LpSurvivors :
                    /\ analysis.riskFlags[i].key \in EmittedKeys
                    /\ \A r \in EmittedLpRanks :
                          lpFlagPriority[r] = analysis.riskFlags[i].key
                          \/ \E q \in 1..(r - 1) : lpFlagPriority[q] = analysis.riskFlags[i].key

\* lp_stale emitted before lp_unlocked, and lp_unlocked is the one kept
C7_Witness ==
    /\ Analyzed
    /\ \E i, j \in 1..Len(EmittedFlags(moduleResults)) :
          /\ i < j
          /\ RawKey(EmittedFlags(moduleResults)[i]) = "lp_stale"
          /\ RawKey(EmittedFlags(moduleResults)[j]) = "lp_unlocked"
    /\ \E i \in LpSurvivors : analysis.riskFlags[i].key = "lp_unlocked"

(***************************************************************************)
(* C8: a key other than an lp_ key that was emitted more than once is in   *)
(* the aggregated list exactly once, and the survivor has the highest      *)
(* severity emitted under the key (a critical version is never replaced by *)
(* a warning one); confidence decides only between equal severities.       *)
(***************************************************************************)
EmissionCount(key) ==
    Cardinality({j \in 1..Len(EmittedFlags(moduleResults)) :
                    RawKey(EmittedFlags(moduleResults)[j]) = key})

C8_HighestSeverityKept ==
    Analyzed =>
        \A key \in EmittedKeys :
            (~StartsWithLp(key) /\ EmissionCount(key) > 1) =>
                /\ Cardinality(Surviving(key)) = 1
                /\ \A i \in Surviving(key) :
                      LET kept == analysis.riskFlags[i] IN
                      /\ kept \in EmittedVersions(key)
                      /\ (\E e \in EmittedVersions(key) : e.severity = "critical")
                            => kept.severity = "critical"
                      /\ \A e \in EmittedVersions(key) :
                            e.severity = kept.severity => e.confidence <= kept.confidence

(***************************************************************************)
(* C9: for a token whose createdAt is less than 6 hours before the         *)
(* analysis, the confidence of the result is never HIGH.                   *)
(***************************************************************************)
CreatedAt == Opt(Opt(signals.helius, "metadata"), "createdAt")

CreatedWithinSixHours == CreatedAt.t = "number" /\ now - CreatedAt.v < 6 * 3600000

C9_VeryNewNeverHigh ==
    (Analyzed /\ CreatedWithinSixHours) => analysis.confidence # "HIGH"

\* a very new token, every module fully confident, EXIT on a verified critical flag
C9_Witness ==
    /\ Analyzed
    /\ CreatedWithinSixHours
    /\ \A m \in ModuleNames : moduleResults[m].confidence = 100
    /\ hasCriticalVerifiedRisk(analysis.riskFlags)
    /\ analysis.dataQuality = "full"
    /\ analysis.verdict = "EXIT"
    /\ analysis.confidence = "MEDIUM"

(***************************************************************************)
(* C10: with partial data quality the confidence is never HIGH, and the    *)
(* adjustment never raises a confidence: LOW and MEDIUM come out as the    *)
(* verdict branch set them.                                                *)
(***************************************************************************)
BranchConfidence ==
    VerdictBranch(WeightedSum(moduleResults),
                  CapConfidence(ConfidenceSum(moduleResults), IsVeryNew(signals, now)),
                  moduleResults, analysis.riskFlags, analysis.dataQuality,
                  IsVeryNew(signals, now)).confidence

C10_PartialNeverHigh ==
    Analyzed =>
        /\ analysis.dataQuality = "partial" => analysis.confidence # "HIGH"
        /\ BranchConfidence \in {"LOW", "MEDIUM"} => analysis.confidence = BranchConfidence
        /\ BranchConfidence = "HIGH" => analysis.confidence \in {"HIGH", "MEDIUM"}

\* partial data, a branch that says HIGH, a result that says MEDIUM
C10_Witness ==
    /\ Analyzed
    /\ analysis.dataQuality = "partial"
    /\ BranchConfidence = "HIGH"
    /\ analysis.confidence = "MEDIUM"

(***************************************************************************)
(* The application, src/app.js: runAnalysis and the state it writes.       *)
(* An AbortController is its index in controllers (0 stands for null);     *)
(* controllers[c] is signal.aborted of controller c.  The awaits of        *)
(* runAnalysis are its suspension points: an invocation is at "fetching"   *)
(* (Promise.all of the two adapters pending), at "analyzing" (analyzeToken *)
(* pending) or "done".  The field cancelled of an invocation records that  *)
(* newAnalysis() was called from the loading view while it was pending.    *)
(***************************************************************************)
MAX_RECENT == 5

\* Number of runAnalysis invocations of a run of the model
MaxRuns == 3

isValidSolanaMint(a) ==
    IF ~Truthy(a) \/ a.t # "string" THEN FALSE
    ELSE LET trimmed == Trim(a.v) IN
         IF Len(trimmed) < 32 \/ Len(trimmed) > 44 THEN FALSE
         ELSE TestClassPlus(trimmed, BASE58_RE)

truncateAddress(a, chars) ==
    IF ~Truthy(a) \/ Len(a.v) < chars * 2 + 3 THEN a
    ELSE Str(SubSeq(a.v, 1, chars) \o <<".", ".", ".">>
             \o SubSeq(a.v, Len(a.v) - chars + 1, Len(a.v)))

InitialState ==
    [view |-> "home", tokenAddress |-> Str(<<>>), result |-> Null, error |-> Null,
     recentAnalyses |-> <<>>, opportunityPool |-> <<>>, poolLoading |-> FALSE,
     poolLastRefresh |-> Null, currentAnalysisController |-> 0]

InvalidAddressError == "Please enter a valid Solana token address"
AnalysisFailedError == "Analysis failed. Please try again."

\* JSON.stringify / JSON.parse of a list of history entries (strings and
\* finite numbers only, which survive the round trip)
JSONStringify(value) == [t |-> "json", v |-> value]
JSONParse(text) == text.v

\* localStorage.setItem inside the try of saveRecentAnalysis: the stored item
\* is replaced unless the call throws (quota exceeded, storage disabled)
setItem(stored, value, throws) == IF throws THEN stored ELSE JSONStringify(value)

\* loadRecentAnalyses(): the stored list if an item is stored
loadRecentAnalyses(recent, stored) == IF stored = Null THEN recent ELSE JSONParse(stored)

\* the history without the removal of the address saved before
saveRecentAnalysisNoDedupe(recent, result, clock) ==
    LET entry == [address |-> result.input,
                  symbol |-> IF Truthy(result.tokenInfo.symbol)
                             THEN result.tokenInfo.symbol
                             ELSE truncateAddress(result.input, 4),
                  verdict |-> result.verdict,
                  confidence |-> result.confidence,
                  timestamp |-> clock]
        all == <<entry>> \o recent
    IN SubSeq(all, 1, Min(Len(all), MAX_RECENT))

saveRecentAnalysis(recent, result, clock) ==
    LET entry == [address |-> result.input,
                  symbol |-> IF Truthy(result.tokenInfo.symbol)
                             THEN result.tokenInfo.symbol
                             ELSE truncateAddress(result.input, 4),
                  verdict |-> result.verdict,
                  confidence |-> result.confidence,
                  timestamp |-> clock]
        kept == SelectSeq(recent, LAMBDA r : r.address # entry.address)
        all == <<entry>> \o kept
    IN SubSeq(all, 1, Min(Len(all), MAX_RECENT))

\* What the user can type into the token input
AddressInputs ==
    {Str(ValidMint), Str(<<" ">> \o Rep("B", 44) \o <<" ">>), Str(Rep("0", 32)), Str(<<>>)}

\* What the six modules return for the bundles the adapters fetched
AppModuleResults == Results(AllHigh, Uniform(80), Uniform(1), NoFlags)

\* signal.aborted of the controller state.currentAnalysisController names
CurrentSignalAborted == controllers[state.currentAnalysisController]

\* The catch block of runAnalysis followed by the final render()
CatchAnalysisError(name) ==
    IF name = "AbortError" THEN state
    ELSE [state EXCEPT !.error = Str(AnalysisFailedError), !.view = "home"]

InitApp ==
    /\ now = AnalyzeClockMs
    /\ ScorerIdle
    /\ AnalyzerIdle
    /\ state = InitialState
    /\ controllers = <<>>
    /\ runs = <<>>
    /\ localStorage = Null
    /\ loads = <<>>
    /\ HookIdle
    /\ FeedIdle

\* runAnalysis(address) up to its first await (or to its return when the
\* address is invalid)
RunAnalysis ==
    /\ state # None
    /\ Len(runs) < MaxRuns
    /\ \E a \in AddressInputs :
          LET cur == state.currentAnalysisController
              abortedOld == IF cur # 0 THEN [controllers EXCEPT ![cur] = TRUE]
                            ELSE controllers
              fresh == Len(controllers) + 1
              trimmed == Str(Trim(a.v))
          IN /\ controllers' = Append(abortedOld, FALSE)
             /\ IF ~isValidSolanaMint(trimmed)
                THEN /\ state' = [state EXCEPT !.currentAnalysisController = fresh,
                                               !.error = Str(InvalidAddressError),
                                               !.view = "home"]
                     /\ runs' = Append(runs, [address |-> trimmed, pc |-> "done",
                                           cancelled |-> FALSE])
                ELSE /\ state' = [state EXCEPT !.currentAnalysisController = fresh,
                                               !.tokenAddress = trimmed,
                                               !.view = "loading",
                                               !.error = Null,
                                               !.result = Null]
                     /\ runs' = Append(runs, [address |-> trimmed, pc |-> "fetching",
                                           cancelled |-> FALSE])
    /\ UNCHANGED <<now, varsScorer, varsAnalyzer, varsHook, varsFeed, localStorage, loads>>

\* Promise.all of the two adapter fetches resolves
FetchResolved ==
    /\ \E i \in DOMAIN runs :
          /\ runs[i].pc = "fetching"
          /\ runs' = [runs EXCEPT ![i].pc =
                         IF CurrentSignalAborted THEN "done" ELSE "analyzing"]
    /\ UNCHANGED <<now, varsScorer, varsAnalyzer, varsHook, varsFeed, state, controllers,
                   localStorage, loads>>

\* analyzeToken resolves with the result
AnalysisResolved ==
    /\ \E i \in DOMAIN runs, engine \in SortEngines, throws \in BOOLEAN :
          /\ runs[i].pc = "analyzing"
          /\ runs' = [runs EXCEPT ![i].pc = "done"]
          /\ LET result == analyzeToken(runs[i].address, FullOldSignals,
                                        AppModuleResults, now, engine)
                 recent == saveRecentAnalysis(state.recentAnalyses, result, now)
             IN IF CurrentSignalAborted
                THEN UNCHANGED <<state, localStorage>>
                ELSE /\ state' = [state EXCEPT !.result = result,
                                               !.view = "result",
                                               !.recentAnalyses = recent]
                     /\ localStorage' = setItem(localStorage, recent, throws)
    /\ UNCHANGED <<now, varsScorer, varsAnalyzer, varsHook, varsFeed, controllers, loads>>

\* One of the awaited promises rejects
AnalysisRejected ==
    /\ \E i \in DOMAIN runs, name \in {"AbortError", "Error"} :
          /\ runs[i].pc \in {"fetching", "analyzing"}
          /\ runs' = [runs EXCEPT ![i].pc = "done"]
          /\ state' = CatchAnalysisError(name)
    /\ UNCHANGED <<now, varsScorer, varsAnalyzer, varsHook, varsFeed, controllers,
                   localStorage, loads>>

NextApp == RunAnalysis \/ FetchResolved \/ AnalysisResolved \/ AnalysisRejected

SpecApp == InitApp /\ [][NextApp]_vars

(***************************************************************************)
(* C11: latest wins.  A step of a runAnalysis invocation that is not the   *)
(* most recent one (its fetches or its analyzeToken completing or failing  *)
(* after a newer runAnalysis was invoked) never writes state.result,       *)
(* state.view, state.error or the recent-analyses history.                 *)
(***************************************************************************)
Displayed(st) == <<st.result, st.view, st.error, st.recentAnalyses>>

C11_LatestWins ==
    [][\A i \in DOMAIN runs :
          (i < Len(runs) /\ runs'[i].pc # runs[i].pc) => Displayed(state') = Displayed(state)]_vars

(***************************************************************************)
(* The webhook receiver pump-webhook (src/unnamed/part_003; the copy in    *)
(* src/netlify/functions/get-pump-feed.ts parses all transactions before   *)
(* it stores the first one and issues the same store commands in the same  *)
(* order).  Every await of the handler is a store command: an invocation   *)
(* is at "sismember", "sadd", "lpush" or "ltrim" (the command it is about  *)
(* to issue for the launch at hand) or "done".  The store executes one     *)
(* command at a time; a command may fail (redis() throws on a response     *)
(* that is not ok), and the handler then answers 500.                      *)
(***************************************************************************)
PUMP_PROGRAM_ID == <<"6EF8rrecthR5Dkzon8Nwu78hRvfCKubJ14M5uBEwF6P">>
CREATE_V2_DISCRIMINATOR == <<214, 144, 76, 236, 95, 139, 49, 180>>

\* redis(["ltrim", KEY_LAUNCHES, "0", "499"])
LTRIM_STOP == 499

\* String(n) of a natural number
DigitChars == <<"0", "1", "2", "3", "4", "5", "6", "7", "8", "9">>

RECURSIVE DecimalString(_)
DecimalString(n) ==
    IF n < 10 THEN <<DigitChars[n + 1]>>
    ELSE DecimalString(n \div 10) \o <<DigitChars[(n % 10) + 1]>>

\* a ?? b
Nullish(a, b) == IF a.t \in {"undefined", "null"} THEN b ELSE a

\* Instruction data of the model, as the base58 text of ix.data
B58CreateV2 == <<"b58(create_v2 X X https a..a false)">>
B58Other == <<"b58(buy)">>
B58Invalid == <<"0OIl">>

\* base58Decode on the texts of the model; ok = FALSE stands for its throw.
\* The bytes after the discriminator are kept as the fields readString,
\* readBytes and toHex make of them.
base58Decode(str) ==
    CASE str = B58CreateV2 ->
            [ok |-> TRUE, head |-> CREATE_V2_DISCRIMINATOR,
             name |-> Str(<<"X">>), symbol |-> Str(<<"X">>), uri |-> Str(UrlHttps),
             creatorHex |-> Str(Rep("a", 64)), isMayhem |-> Bool(FALSE)]
      [] str = B58Other ->
            [ok |-> TRUE, head |-> <<102, 6, 61, 18, 1, 218, 235, 234>>]
      [] OTHER -> [ok |-> FALSE]

startsWith(a, prefix) ==
    /\ Len(a) >= Len(prefix)
    /\ \A i \in 1..Len(prefix) : a[i] = prefix[i]

ArrayOrEmpty(x) == IF x.t = "array" THEN x.v ELSE <<>>

RECURSIVE ExtractFrom(_)
ExtractFrom(candidates) ==
    IF candidates = <<>> THEN Null
    ELSE LET ix == Head(candidates)
             programId == Opt(ix, "programId")
             dataB58 == Opt(ix, "data")
         IN IF programId.t = "string" /\ Truthy(programId) /\ programId.v # PUMP_PROGRAM_ID
            THEN ExtractFrom(Tail(candidates))
            ELSE IF dataB58.t # "string" \/ ~Truthy(dataB58)
            THEN ExtractFrom(Tail(candidates))
            ELSE LET raw_ == base58Decode(dataB58.v) IN
                 IF ~raw_.ok THEN ExtractFrom(Tail(candidates))
                 ELSE IF ~startsWith(raw_.head, CREATE_V2_DISCRIMINATOR)
                 THEN ExtractFrom(Tail(candidates))
                 ELSE Obj([name |-> raw_.name, symbol |-> raw_.symbol, uri |-> raw_.uri,
                           creatorHex |-> raw_.creatorHex, isMayhem |-> raw_.isMayhem])

extractCreateV2(tx) ==
    ExtractFrom(ArrayOrEmpty(Opt(tx, "instructions"))
                \o ArrayOrEmpty(Opt(Opt(Opt(tx, "transaction"), "message"), "instructions")))

RECURSIVE FirstMint(_)
FirstMint(entries) ==
    IF entries = <<>> THEN Null
    ELSE LET m == Opt(Head(entries), "mint") IN
         IF m.t = "string" /\ Len(m.v) > 20 THEN m ELSE FirstMint(Tail(entries))

pickMint(tx) ==
    LET fromTransfers == FirstMint(ArrayOrEmpty(Opt(tx, "tokenTransfers"))) IN
    IF fromTransfers # Null THEN fromTransfers
    ELSE FirstMint(ArrayOrEmpty(Opt(Opt(tx, "meta"), "postTokenBalances")))

\* tx?.signature || tx?.transactionSignature || tx?.txSignature || null
SignatureOf(tx) ==
    IF Truthy(Opt(tx, "signature")) THEN tx.signature
    ELSE IF Truthy(Opt(tx, "transactionSignature")) THEN tx.transactionSignature
    ELSE IF Truthy(Opt(tx, "txSignature")) THEN tx.txSignature
    ELSE Null

\* mint ? `mint:${mint}` : (sig ? `sig:${sig}` : null)
DedupeKey(mint, sig) ==
    IF Truthy(mint) THEN Str(<<"mint:">> \o mint.v)
    ELSE IF Truthy(sig) THEN Str(<<"sig:">> \o sig.v)
    ELSE Null

LaunchItem(tx, parsed, mint, sig, clock) ==
    [kind |-> "pump_create_v2", mint |-> mint, name |-> parsed.name,
     symbol |-> parsed.symbol, uri |-> parsed.uri, creatorHex |-> parsed.creatorHex,
     isMayhem |-> parsed.isMayhem, signature |-> sig,
     slot |-> Nullish(Opt(tx, "slot"), Null),
     timestamp |-> Nullish(Opt(tx, "timestamp"),
                           Nullish(Opt(tx, "blockTime"), Num(clock \div 1000)))]

\* The for loop of the handler from the transactions txs on, up to its next
\* await (the sismember of a launch that has a dedupe key) or to the response
RECURSIVE Proceed(_, _, _)
Proceed(h, txs, clock) ==
    IF txs = <<>> THEN [h EXCEPT !.pc = "done", !.statusCode = 200, !.rest = <<>>]
    ELSE LET tx == Head(txs) IN
         IF Truthy(Opt(tx, "transactionError")) THEN Proceed(h, Tail(txs), clock)
         ELSE IF Truthy(Opt(tx, "status")) /\ tx.status # Str(<<"SUCCESS">>)
         THEN Proceed(h, Tail(txs), clock)
         ELSE LET parsed == extractCreateV2(tx) IN
              IF parsed = Null THEN Proceed(h, Tail(txs), clock)
              ELSE LET mint == pickMint(tx)
                       sig == SignatureOf(tx)
                       dedupeKey == DedupeKey(mint, sig)
                       counted == [h EXCEPT !.launches = @ + 1]
                   IN IF dedupeKey = Null THEN Proceed(counted, Tail(txs), clock)
                      ELSE [counted EXCEPT !.pc = "sismember",
                                           !.dedupeKey = dedupeKey,
                                           !.item = LaunchItem(tx, parsed, mint, sig, clock),
                                           !.rest = Tail(txs)]

\* The body text that JSON.parse rejects
Unparsable == [t |-> "unparsable", v |-> 0]

Respond(ev, code, err) ==
    [event |-> ev, pc |-> "done", statusCode |-> code, error |-> err, rest |-> <<>>,
     dedupeKey |-> Null, item |-> Null, received |-> 0, launches |-> 0, stored |-> 0]

\* The handler if it compared the secret only when the request carries one
HandlerEntryLenient(ev, secret, clock) ==
    IF ev.httpMethod = "OPTIONS" THEN Respond(ev, 200, "")
    ELSE IF ~Truthy(secret) THEN Respond(ev, 500, "missing_PUMP_WEBHOOK_SECRET")
    ELSE IF Truthy(ev.secret) /\ ev.secret # secret THEN Respond(ev, 401, "unauthorized")
    ELSE IF ev.body = Unparsable THEN Respond(ev, 500, "server_error")
    ELSE IF ~Truthy(ev.body) THEN Respond(ev, 400, "missing_body")
    ELSE LET txs == IF ev.body.t = "array" THEN ev.body.v
                    ELSE IF Opt(ev.body, "transactions").t = "array"
                    THEN ev.body.transactions.v
                    ELSE <<ev.body>>
         IN Proceed([Respond(ev, 0, "") EXCEPT !.received = Len(txs)], txs, clock)

\* handler(event) up to its first await or to its response
HandlerEntry(ev, secret, clock) ==
    IF ev.httpMethod = "OPTIONS" THEN Respond(ev, 200, "")
    ELSE IF ~Truthy(secret) THEN Respond(ev, 500, "missing_PUMP_WEBHOOK_SECRET")
    ELSE IF ev.secret # secret THEN Respond(ev, 401, "unauthorized")
    ELSE IF ev.body = Unparsable THEN Respond(ev, 500, "server_error")
    ELSE IF ~Truthy(ev.body) THEN Respond(ev, 400, "missing_body")
    ELSE LET txs == IF ev.body.t = "array" THEN ev.body.v
                    ELSE IF Opt(ev.body, "transactions").t = "array"
                    THEN ev.body.transactions.v
                    ELSE <<ev.body>>
         IN Proceed([Respond(ev, 0, "") EXCEPT !.received = Len(txs)], txs, clock)

\* The catch block of the handler
ServerError(h) == [h EXCEPT !.pc = "done", !.statusCode = 500, !.error = "server_error"]

(***************************************************************************)
(* Deliveries to the webhook                                               *)
(***************************************************************************)
\* Number of webhook deliveries of a run of the model
MaxDeliveries == 2

\* Launches stored before the run of the model starts (0 or this many)
Prefill == 499

MintOne == Str(Rep("M", 32))
MintTwo == Str(Rep("N", 44))
SigOne == Str(<<"sig1">>)
SigTwo == Str(<<"sig2">>)

Ix(programId, data) == Obj([programId |-> programId, data |-> data])

CreateIx == Ix(Str(PUMP_PROGRAM_ID), Str(B58CreateV2))
OtherIx == Ix(Undefined, Str(B58Other))
InvalidIx == Ix(Str(PUMP_PROGRAM_ID), Str(B58Invalid))
ForeignIx == Ix(Str(<<"11111111111111111111111111111111">>), Str(B58CreateV2))

Transfer(mint) == Obj([mint |-> mint])

Tx(err, status, ixs, transfers, post, sig, ts) ==
    Obj([transactionError |-> err, status |-> status, instructions |-> Arr(ixs),
         transaction |-> Undefined, tokenTransfers |-> transfers,
         meta |-> Obj([postTokenBalances |-> post]),
         signature |-> sig, transactionSignature |-> Undefined, txSignature |-> Undefined,
         slot |-> Num(7), timestamp |-> ts, blockTime |-> Undefined,
         transactions |-> Undefined])

\* A creation whose mint is found in tokenTransfers, after a short one
TxMint ==
    Tx(Null, Undefined, <<OtherIx, CreateIx>>,
       Arr(<<Transfer(Str(Rep("M", 20))), Transfer(MintOne)>>), Undefined, SigOne, Num(1000))
\* Another creation, its mint found in meta.postTokenBalances
TxMintTwo ==
    Tx(Null, Str(<<"SUCCESS">>), <<CreateIx>>, Undefined, Arr(<<Transfer(MintTwo)>>),
       SigTwo, Undefined)
\* A creation without a mint: deduplicated by its signature
TxSigOnly == Tx(Null, Undefined, <<CreateIx>>, Arr(<<>>), Undefined, SigTwo, Undefined)
\* A creation with neither mint nor signature
TxNoKey == Tx(Null, Undefined, <<CreateIx>>, Undefined, Undefined, Str(<<>>), Num(1000))
\* Transactions the loop skips
TxError ==
    Tx(Obj([InstructionError |-> Num(1)]), Undefined, <<CreateIx>>,
       Arr(<<Transfer(MintTwo)>>), Undefined, SigOne, Num(1000))
TxFailed ==
    Tx(Null, Str(<<"FAILED">>), <<CreateIx>>, Arr(<<Transfer(MintTwo)>>), Undefined,
       SigOne, Num(1000))
TxNoCreate ==
    Tx(Null, Undefined, <<InvalidIx, OtherIx, ForeignIx>>, Arr(<<Transfer(MintTwo)>>),
       Undefined, SigOne, Num(1000))

BodySamples ==
    {Undefined, Unparsable,
     Arr(<<TxMint>>),
     Arr(<<TxSigOnly, TxMint>>),
     TxMintTwo,
     Obj([transactions |-> Arr(<<TxNoKey, TxError, TxFailed, TxNoCreate>>)])}

GoodSecret == Str(<<"s3cret">>)
BadSecret == Str(<<"guess">>)

Event(method, secret, body) == [httpMethod |-> method, secret |-> secret, body |-> body]

EventSamples ==
    {Event("POST", GoodSecret, b) : b \in BodySamples}
    \cup {Event("POST", BadSecret, Arr(<<TxMint>>)),
          Event("POST", BadSecret, Unparsable),
          Event("POST", Undefined, Arr(<<TxMintTwo>>)),
          Event("OPTIONS", BadSecret, Undefined)}

\* The launches stored before the run starts, oldest numbered 1
OldLaunch(i) ==
    [kind |-> "pump_create_v2", mint |-> Null, name |-> Str(<<"X">>),
     symbol |-> Str(<<"X">>), uri |-> Str(UrlHttps), creatorHex |-> Str(Rep("a", 64)),
     isMayhem |-> Bool(FALSE), signature |-> Str(<<"old">> \o DecimalString(i)),
     slot |-> Null, timestamp |-> Num(1000)]

OldLaunches(k) == [j \in 1..k |-> OldLaunch(k - j + 1)]

\* The webhook function deployed over a store that holds k launches
HookDeployed(k) ==
    /\ now = ScoreClockMs
    /\ ScorerIdle
    /\ AnalyzerIdle
    /\ AppIdle
    /\ FeedIdle
    /\ SECRET \in {Undefined, GoodSecret}
    /\ launchesList = OldLaunches(k)
    /\ seenSet = {DedupeKey(Null, OldLaunch(i).signature) : i \in 1..k}
    /\ pushed = launchesList
    /\ hooks = <<>>

InitHook == HookDeployed(0)

\* The store one launch short of the cap of the list
InitHookFull == HookDeployed(Prefill)

\* A delivery arrives and its handler runs up to its first store command
Deliver ==
    /\ SECRET # None
    /\ Len(hooks) < MaxDeliveries
    /\ \E ev \in EventSamples : hooks' = Append(hooks, HandlerEntry(ev, SECRET, now))
    /\ UNCHANGED <<now, varsScorer, varsAnalyzer, varsApp, varsFeed, SECRET, seenSet, launchesList, pushed>>

\* await redis(["sismember", KEY_SEEN, dedupeKey]); if (seen?.result) continue;
SIsMember ==
    /\ \E i \in DOMAIN hooks :
          /\ hooks[i].pc = "sismember"
          /\ hooks' = [hooks EXCEPT ![i] =
                          IF hooks[i].dedupeKey \in seenSet
                          THEN Proceed(hooks[i], hooks[i].rest, now)
                          ELSE [hooks[i] EXCEPT !.pc = "sadd"]]
    /\ UNCHANGED <<now, varsScorer, varsAnalyzer, varsApp, varsFeed, SECRET, seenSet, launchesList, pushed>>

\* await redis(["sadd", KEY_SEEN], [dedupeKey]);
SAdd ==
    /\ \E i \in DOMAIN hooks :
          /\ hooks[i].pc = "sadd"
          /\ seenSet' = seenSet \cup {hooks[i].dedupeKey}
          /\ hooks' = [hooks EXCEPT ![i].pc = "lpush"]
    /\ UNCHANGED <<now, varsScorer, varsAnalyzer, varsApp, varsFeed, SECRET, launchesList, pushed>>

\* await redis(["lpush", KEY_LAUNCHES], [JSON.stringify(item)]);
LPush ==
    /\ \E i \in DOMAIN hooks :
          /\ hooks[i].pc = "lpush"
          /\ launchesList' = <<hooks[i].item>> \o launchesList
          /\ pushed' = <<hooks[i].item>> \o pushed
          /\ hooks' = [hooks EXCEPT ![i].pc = "ltrim"]
    /\ UNCHANGED <<now, varsScorer, varsAnalyzer, varsApp, varsFeed, SECRET, seenSet>>

\* await redis(["ltrim", KEY_LAUNCHES, "0", "499"]); stored++; then the loop goes on
LTrim ==
    /\ \E i \in DOMAIN hooks :
          /\ hooks[i].pc = "ltrim"
          /\ launchesList' = SubSeq(launchesList, 1, Min(Len(launchesList), LTRIM_STOP + 1))
          /\ hooks' = [hooks EXCEPT ![i] =
                          Proceed([hooks[i] EXCEPT !.stored = @ + 1], hooks[i].rest, now)]
    /\ UNCHANGED <<now, varsScorer, varsAnalyzer, varsApp, varsFeed, SECRET, seenSet, pushed>>

\* The store answers a command with a status that is not ok: redis() throws
StoreCommandFails ==
    /\ \E i \in DOMAIN hooks :
          /\ hooks[i].pc \in {"sismember", "sadd", "lpush", "ltrim"}
          /\ hooks' = [hooks EXCEPT ![i] = ServerError(hooks[i])]
    /\ UNCHANGED <<now, varsScorer, varsAnalyzer, varsApp, varsFeed, SECRET, seenSet, launchesList, pushed>>

NextHook == Deliver \/ SIsMember \/ SAdd \/ LPush \/ LTrim \/ StoreCommandFails

SpecHook == InitHook /\ [][NextHook]_vars

SpecHookFull == InitHookFull /\ [][NextHook]_vars

\* No handler invocation is in flight
Quiescent == \A i \in DOMAIN hooks : hooks[i].pc = "done"

KeyOfLaunch(l) == DedupeKey(l.mint, l.signature)

(***************************************************************************)
(* C12: whatever the deliveries and their interleaving, no two launches    *)
(* ever appended to the launches list have the same dedupe key, and a      *)
(* launch with neither mint nor signature is never appended.               *)
(***************************************************************************)
C12_AppendedAtMostOnce ==
    /\ Cardinality({KeyOfLaunch(pushed[i]) : i \in DOMAIN pushed}) = Len(pushed)
    /\ \A i \in DOMAIN pushed : KeyOfLaunch(pushed[i]) # Null

(***************************************************************************)
(* C13: when the handler invocations have completed, the launches list is  *)
(* the newest-first sequence of the (at most) 500 most recently stored     *)
(* launches.                                                               *)
(***************************************************************************)
C13_Newest500 ==
    Quiescent => launchesList = SubSeq(pushed, 1, Min(Len(pushed), 500))

(***************************************************************************)
(* C14: a webhook request whose secret differs from the configured one, or *)
(* that arrives when no secret is configured, is answered 401,             *)
(* respectively 500, before its payload is parsed, and its handler never   *)
(* reaches a store command.  As stated, for every request:                 *)
(***************************************************************************)
SecretRejected(h) == ~Truthy(SECRET) \/ h.event.secret # SECRET

RejectedUnparsed(h) ==
    /\ h.pc = "done"
    /\ h.statusCode = (IF ~Truthy(SECRET) THEN 500 ELSE 401)
    /\ h.error = (IF ~Truthy(SECRET) THEN "missing_PUMP_WEBHOOK_SECRET" ELSE "unauthorized")
    /\ h.received = 0 /\ h.launches = 0 /\ h.stored = 0
    /\ h.dedupeKey = Null

C14_BadSecretRejected ==
    \A i \in DOMAIN hooks : SecretRejected(hooks[i]) => RejectedUnparsed(hooks[i])

(***************************************************************************)
(* C14 as amended: the rejection holds for every request other than an     *)
(* OPTIONS preflight; an OPTIONS request is answered 200 without a look at *)
(* the secret, and it too parses no payload and reaches no store command.  *)
(***************************************************************************)
C14_BadSecretRejectedUnlessOptions ==
    \A i \in DOMAIN hooks :
        LET h == hooks[i] IN
        /\ (h.event.httpMethod # "OPTIONS" /\ SecretRejected(h)) => RejectedUnparsed(h)
        /\ h.event.httpMethod = "OPTIONS" =>
              /\ h.pc = "done" /\ h.statusCode = 200
              /\ h.received = 0 /\ h.stored = 0 /\ h.dedupeKey = Null

\* A request with a wrong secret was rejected by a function whose store holds a launch
C14_Witness ==
    /\ launchesList # <<>>
    /\ \E i \in DOMAIN hooks :
          /\ hooks[i].event.httpMethod = "POST"
          /\ hooks[i].event.secret = BadSecret
          /\ hooks[i].event.body # Unparsable
          /\ hooks[i].statusCode = 401

(***************************************************************************)
(* C20: on the non-terminal path of scoreTokenV1 (v1.1.0) the verdict is   *)
(* unknown when the mint format is invalid and the on-chain record is      *)
(* absent or reports exists = false, whatever the score; otherwise it is   *)
(* clean-ish for a score up to 25, caution for 26..60 and high-risk above. *)
(***************************************************************************)
NonTerminal == scored # None /\ scored.mint # Null

ForceUnknown == ~isValidPubkey(item.mint) /\ (onchain = Null \/ ~onchain.exists)

C20_VerdictBuckets ==
    NonTerminal =>
        IF ForceUnknown THEN scored.verdict = "unknown"
        ELSE /\ scored.score <= 25 => scored.verdict = "clean-ish"
             /\ scored.score >= 26 /\ scored.score <= 60 => scored.verdict = "caution"
             /\ scored.score > 60 => scored.verdict = "high-risk"

\* An invalid mint without a confirmed account: unknown although the score,
\* below 100, falls into the high-risk bucket
C20_Witness ==
    /\ NonTerminal
    /\ ForceUnknown
    /\ scored.score > 60 /\ scored.score < 100
    /\ scored.verdict = "unknown"

(***************************************************************************)
(* The scoring endpoint scored-feed v1.1.0                                 *)
(* (src/netlify/functions/scored-feed.js): rate limit, response cache,     *)
(* on-chain cache and the handler.  A warm function instance serves one    *)
(* request at a time, so a handler invocation is one step; the clock       *)
(* advances inside it by the latency of every upstream lookup it awaits.   *)
(* A Map is the function from its keys to its values.                      *)
(***************************************************************************)
CACHE_TTL_MS == 60000
RL_WINDOW_MS == 10000
RL_MAX == 25
ONCHAIN_TTL_MS == 5 * 60000
ONCHAIN_CHECK_MAX == 30

EmptyMap == [k \in {} |-> 0]
MapHas(map, k) == k \in DOMAIN map
MapPut(map, k, val) == [x \in DOMAIN map \cup {k} |-> IF x = k THEN val ELSE map[x]]

\* String(h).split(",")[0]
RECURSIVE SplitFirst(_)
SplitFirst(s) ==
    IF s = <<>> \/ Head(s) = "," THEN <<>> ELSE <<Head(s)>> \o SplitFirst(Tail(s))

getClientIp(event) ==
    LET h == event.headers
        forwarded == IF Truthy(h.xForwardedFor)
                     THEN Str(Trim(SplitFirst(h.xForwardedFor.v)))
                     ELSE Str(<<>>)
    IN IF Truthy(h.xNfClientConnectionIp) THEN h.xNfClientConnectionIp
       ELSE IF Truthy(forwarded) THEN forwarded
       ELSE Str(<<"unknown">>)

\* rateLimitOk with the table it leaves, if it admitted one request too many
rateLimitOkOffByOne(rl, ip, clock) ==
    IF ~MapHas(rl, ip) \/ clock > rl[ip].resetAt
    THEN [ok |-> TRUE, rl |-> MapPut(rl, ip, [n |-> 1, resetAt |-> clock + RL_WINDOW_MS])]
    ELSE LET row == [rl[ip] EXCEPT !.n = @ + 1]
         IN [ok |-> row.n <= RL_MAX + 1, rl |-> MapPut(rl, ip, row)]

\* rateLimitOk(ip) with the table it leaves
rateLimitOk(rl, ip, clock) ==
    IF ~MapHas(rl, ip) \/ clock > rl[ip].resetAt
    THEN [ok |-> TRUE, rl |-> MapPut(rl, ip, [n |-> 1, resetAt |-> clock + RL_WINDOW_MS])]
    ELSE LET row == [rl[ip] EXCEPT !.n = @ + 1]
         IN [ok |-> row.n <= RL_MAX, rl |-> MapPut(rl, ip, row)]

\* parseInt(s, 10) on the query strings of the model: an optional minus sign,
\* then the longest prefix of digits; NaN without a digit
DigitValue(c) == CHOOSE d \in 0..9 : DigitChars[d + 1] = c
IsDigit(c) == \E d \in 0..9 : DigitChars[d + 1] = c

RECURSIVE ParseDigits(_, _, _)
ParseDigits(s, acc, any) ==
    IF s = <<>> \/ ~IsDigit(Head(s)) THEN (IF any THEN Num(acc) ELSE NaN)
    ELSE ParseDigits(Tail(s), acc * 10 + DigitValue(Head(s)), TRUE)

parseInt(s) ==
    LET t == TrimStart(s) IN
    IF t # <<>> /\ Head(t) = "-"
    THEN LET p == ParseDigits(Tail(t), 0, FALSE) IN IF p.t = "number" THEN Num(0 - p.v) ELSE p
    ELSE ParseDigits(t, 0, FALSE)

\* Math.max(1, Math.min(200, parseInt(q.limit || "50", 10) || 50))
LimitOf(q) ==
    LET text == IF Truthy(q.limit) THEN q.limit ELSE Str(<<"5", "0">>)
        parsed == parseInt(text.v)
        n == IF Truthy(parsed) THEN parsed.v ELSE 50
    IN Max(1, Min(200, n))

\* A stored row is the launch object the webhook stringified (a record of its
\* fields), another JSON value (a tagged value) or a text JSON.parse rejects.
IsObjectRow(row) == "t" \notin DOMAIN row

\* row?.field
FieldOf(row, f) == IF IsObjectRow(row) /\ f \in DOMAIN row THEN row[f] ELSE Undefined

\* the launch fields as scoreTokenV1 reads them off a row (item?.field)
AsItem(row) ==
    [f \in {"mint", "name", "symbol", "uri", "creatorHex", "signature",
            "timestamp", "isMayhem"} |-> FieldOf(row, f)]

\* loadLaunches(limit): lrange 0 limit-1, JSON.parse each row, filter(Boolean)
loadLaunches(limit, list) ==
    SelectSeq(SubSeq(list, 1, Min(limit, Len(list))),
              LAMBDA row : row # Unparsable /\ (IsObjectRow(row) \/ Truthy(row)))

\* The chain: what getAccountInfo answers for a mint, by the mint's last
\* character ("B": no account; "C": a mint with both authorities, jsonParsed;
\* "D": an account that is not a parsed mint; others: a mint without
\* authorities)
ChainAccount(mint) ==
    LET last == mint[Len(mint)] IN
    CASE last = "B" -> [kind |-> "null"]
      [] last = "C" -> [kind |-> "mint", decimals |-> Num(6), isInitialized |-> Bool(TRUE),
                        mintAuthority |-> Str(<<"auth">>), freezeAuthority |-> Str(<<"auth">>)]
      [] last = "D" -> [kind |-> "account"]
      [] OTHER -> [kind |-> "mint", decimals |-> Num(9), isInitialized |-> Bool(TRUE),
                   mintAuthority |-> Null, freezeAuthority |-> Null]

MintInfo(ex, ma, fa, dec, init) ==
    [t |-> "object", v |-> 0, exists |-> ex, mintAuthority |-> ma,
     freezeAuthority |-> fa, decimals |-> dec, isInitialized |-> init]

\* let out = { exists: false, ... }
DefaultMintInfo == MintInfo(FALSE, Null, Null, Null, Null)

\* the try block of fetchMintOnchain on the account the RPC returned
DecodeAccount(acct) ==
    CASE acct.kind = "null" -> DefaultMintInfo
      [] acct.kind = "mint" ->
            MintInfo(TRUE,
                     IF acct.mintAuthority.t = "string" THEN acct.mintAuthority ELSE Null,
                     IF acct.freezeAuthority.t = "string" THEN acct.freezeAuthority ELSE Null,
                     IF IsNumber(acct.decimals) THEN acct.decimals ELSE Null,
                     IF acct.isInitialized.t = "boolean" THEN acct.isInitialized ELSE Null)
      [] OTHER -> MintInfo(TRUE, Null, Null, Null, Null)

\* fetchMintOnchain(mint) at the time clock, against the on-chain cache;
\* up = FALSE: rpc() throws (network error, status not ok, RPC error)
fetchMintOnchain(mint, clock, cache, up) ==
    IF MapHas(cache, mint) /\ clock - cache[mint].at < ONCHAIN_TTL_MS
    THEN [info |-> IF Truthy(cache[mint].data) THEN cache[mint].data ELSE DefaultMintInfo,
          cache |-> cache, queried |-> FALSE]
    ELSE LET out == IF up THEN DecodeAccount(ChainAccount(mint)) ELSE DefaultMintInfo
         IN [info |-> out, cache |-> MapPut(cache, mint, [at |-> clock, data |-> out]),
             queried |-> TRUE]


\* Math.min(30, launches.length) without the cap
ONCHAIN_CHECK_N_Uncapped(launches) == Len(launches)

\* const ONCHAIN_CHECK_N = Math.min(30, launches.length)
ONCHAIN_CHECK_N(launches) == Min(ONCHAIN_CHECK_MAX, Len(launches))

\* The on-chain loop of the handler from index i on.  acc carries the
\* onchainByMint map, the ONCHAIN cache, the clock, the upstream lookups made
\* (mint and time) and the mints whose lookup failed; every lookup that goes
\* upstream takes acc.latency ms.
RECURSIVE OnchainLoop(_, _, _, _)
OnchainLoop(launches, i, n, acc) ==
    IF i > n THEN acc
    ELSE LET mint == TrimmedOr(FieldOf(launches[i], "mint"), Str(<<>>))
         IN IF ~Truthy(mint) \/ ~isValidPubkey(mint) THEN OnchainLoop(launches, i + 1, n, acc)
            ELSE IF MapHas(acc.byMint, mint.v) THEN OnchainLoop(launches, i + 1, n, acc)
            ELSE LET r == fetchMintOnchain(mint.v, acc.clock, acc.cache, acc.up)
                 IN OnchainLoop(launches, i + 1, n,
                        [acc EXCEPT
                            !.byMint = MapPut(@, mint.v, r.info),
                            !.cache = r.cache,
                            !.clock = IF r.queried THEN @ + acc.latency ELSE @,
                            !.queries = IF r.queried
                                        THEN Append(@, [mint |-> mint.v, at |-> acc.clock])
                                        ELSE @,
                            !.failed = IF r.queried /\ ~acc.up THEN @ \cup {mint.v} ELSE @])

\* launches.map((it) => scoreTokenV1(it, onchain))
ScoreLaunch(row, byMint, clock) ==
    LET mint == TrimmedOr(FieldOf(row, "mint"), Str(<<>>))
        oc == IF Truthy(mint) /\ MapHas(byMint, mint.v) THEN byMint[mint.v] ELSE Null
    IN scoreTokenV1(AsItem(row), oc, clock)

\* the points of a creator with c launches in the batch, by tiers
FrequencyTier(c) == IF c > 10 THEN 30 ELSE IF c > 5 THEN 20 ELSE IF c > 2 THEN 10 ELSE 0

\* the number of launches of the batch that have the creator of the i-th
CreatorFrequency(launches, i) ==
    Cardinality({k \in DOMAIN launches :
                    FieldOf(launches[k], "creatorHex") = FieldOf(launches[i], "creatorHex")})

\* The batch scored with a creator-reuse category on top
ScoreLaunchesByFrequency(launches, byMint, clock) ==
    [i \in 1..Len(launches) |->
        LET entry == ScoreLaunch(launches[i], byMint, clock)
        IN IF entry.mint = Null THEN entry
           ELSE [entry EXCEPT !.score = clamp(@ + FrequencyTier(CreatorFrequency(launches, i)),
                                              0, 100)]]

\* const items = launches.map((it) => ...)
ScoreLaunches(launches, byMint, clock) ==
    [i \in 1..Len(launches) |-> ScoreLaunch(launches[i], byMint, clock)]

EmptyCache == [at |-> 0, payload |-> Null]

\* What the handler leaves of a request: the response and what it did for it
Response(ip, clock, code, xcache, body, reads, pass, cacheBefore, onchainBefore) ==
    [ip |-> ip, at |-> clock, statusCode |-> code, xcache |-> xcache, body |-> body,
     storeReads |-> reads, loaded |-> pass.loaded, queries |-> pass.queries,
     failed |-> pass.failed, byMint |-> pass.byMint,
     cacheBefore |-> cacheBefore, onchainBefore |-> onchainBefore]

NoPass == [loaded |-> <<>>, queries |-> <<>>, failed |-> {}, byMint |-> EmptyMap]

\* The cached payload counted as fresh up to and including the TTL
CacheFreshInclusive(cache, clock) ==
    Truthy(cache.payload) /\ clock - cache.at <= CACHE_TTL_MS

\* CACHE.payload && now - CACHE.at < CACHE_TTL_MS
CacheFresh(cache, clock) ==
    Truthy(cache.payload) /\ clock - cache.at < CACHE_TTL_MS

\* handler(event) arriving at the time clock.  env: storeOk (the lrange
\* succeeds), up (the RPC answers), latency (ms per awaited upstream call).
Handler(event, clock, env, rl, cache, oncache, list) ==
    LET ip == getClientIp(event).v
        limited == rateLimitOk(rl, ip, clock)
        same == [RL |-> limited.rl, CACHE |-> cache, ONCHAIN |-> oncache, clock |-> clock]
    IN
    IF ~limited.ok THEN
        same @@ [response |-> Response(ip, clock, 429, "none", "rate_limited", 0,
                                       NoPass, cache, oncache)]
    ELSE IF CacheFresh(cache, clock) THEN
        same @@ [response |-> Response(ip, clock, 200, "HIT", cache.payload, 0,
                                       NoPass, cache, oncache)]
    ELSE IF ~env.storeOk THEN
        [same EXCEPT !.clock = clock + env.latency]
        @@ [response |-> Response(ip, clock, 500, "none", "server_error", 1,
                                  NoPass, cache, oncache)]
    ELSE
        LET limit == LimitOf(event.queryStringParameters)
            launches == loadLaunches(limit, list)
            pass == OnchainLoop(launches, 1, ONCHAIN_CHECK_N(launches),
                                [byMint |-> EmptyMap, cache |-> oncache,
                                 clock |-> clock + env.latency, queries |-> <<>>,
                                 failed |-> {}, up |-> env.up, latency |-> env.latency])
            items == ScoreLaunches(launches, pass.byMint, pass.clock)
            payload == [t |-> "object", v |-> 0, ok |-> TRUE, updatedUTC |-> pass.clock,
                        onchainChecked |-> Min(ONCHAIN_CHECK_MAX, Len(launches)),
                        count |-> Len(items), items |-> items]
        IN [RL |-> limited.rl, CACHE |-> [at |-> clock, payload |-> payload],
            ONCHAIN |-> pass.cache, clock |-> pass.clock,
            response |-> Response(ip, clock, 200, "MISS", payload, 1,
                                  [loaded |-> launches, queries |-> pass.queries,
                                   failed |-> pass.failed, byMint |-> pass.byMint],
                                  cache, oncache)]

(***************************************************************************)
(* Requests to the scoring endpoint                                        *)
(***************************************************************************)
MaxRequests == 2
MaxBurst == 27
FeedClockMs == 10000000
RpcLatencyMs == 40

\* the base58 characters that end the mints of the model
MintEndings ==
    <<"1", "2", "3", "4", "5", "6", "7", "8", "9", "A", "B", "C", "D", "E", "F", "G",
      "H", "J", "K", "L", "M", "N", "P", "Q", "R", "S", "T", "U", "V", "W", "X", "Y">>

MintNumbered(i) == Rep("A", 31) \o <<MintEndings[i]>>

\* JSON.parse of a row the webhook stored
FeedLaunch(mint) ==
    [kind |-> "pump_create_v2", mint |-> mint, name |-> Str(<<"X">>),
     symbol |-> Str(<<"X">>), uri |-> Str(UrlHttps), creatorHex |-> Str(Rep("a", 64)),
     isMayhem |-> Bool(FALSE), signature |-> Str(<<"s", "i", "g">>), slot |-> Null,
     timestamp |-> Num(FeedClockMs \div 1000)]

\* a stored list with every kind of row: launches (one mint twice, a mint
\* with surrounding blanks, a blank mint, a malformed mint, no mint), an
\* object of unexpected shape, JSON values that are not objects, a text that
\* is not JSON
MixedStore ==
    <<FeedLaunch(Str(MintNumbered(1))),
      Unparsable,
      FeedLaunch(Str(MintNumbered(11))),
      Null,
      [mint |-> Str(MintNumbered(12)), name |-> Num(7), uri |-> Arr(<<>>)],
      Num(7),
      FeedLaunch(Str(<<" ">> \o MintNumbered(1) \o <<" ">>)),
      FeedLaunch(Str(<<" ">>)),
      FeedLaunch(Str(Rep("0", 32))),
      FeedLaunch(Null),
      Arr(<<>>),
      FeedLaunch(Str(MintNumbered(13)))>>

\* a stored list of more launches than one pass checks on chain
LongStore == [i \in 1..Len(MintEndings) |-> FeedLaunch(Str(MintNumbered(i)))]

\* the launch of a creator, all other fields as in FeedLaunch
LaunchBy(creatorChar) ==
    [FeedLaunch(Str(MintNumbered(1))) EXCEPT !.creatorHex = Str(Rep(creatorChar, 64))]

\* a stored list with creators of 11, 10, 6, 3, 2 launches and of 1 launch
CreatorStore ==
    [i \in 1..11 |-> LaunchBy("a")] \o [i \in 1..10 |-> LaunchBy("b")]
    \o [i \in 1..6 |-> LaunchBy("c")] \o [i \in 1..3 |-> LaunchBy("d")]
    \o [i \in 1..2 |-> LaunchBy("e")] \o <<LaunchBy("f")>>

StoreSamples == {MixedStore, LongStore, CreatorStore}

IpOne == Str(<<"1", ".", "1">>)
IpTwo == Str(<<"2", ".", "2">>)

Headers(direct, forwarded) == [xNfClientConnectionIp |-> direct, xForwardedFor |-> forwarded]

FeedEvent(headers, limit) == [headers |-> headers, queryStringParameters |-> [limit |-> limit]]

FeedEvents ==
    {FeedEvent(Headers(IpOne, Str(<<"9">>)), Undefined),
     FeedEvent(Headers(Undefined, Str(<<" ">> \o IpTwo.v \o <<",", "9">>)), Str(<<"3">>)),
     FeedEvent(Headers(Undefined, Undefined), Str(<<"-", "5">>))}

FeedEnvs == [storeOk : BOOLEAN, up : BOOLEAN, latency : {RpcLatencyMs}]

\* the times between the arrivals of two consecutive requests
FeedSteps == {CACHE_TTL_MS - 1, CACHE_TTL_MS, ONCHAIN_TTL_MS, 2 * ONCHAIN_TTL_MS}

BurstEvents == {FeedEvent(Headers(ip, Undefined), Undefined) : ip \in {IpOne, IpTwo}}
BurstEnvs == [storeOk : {TRUE}, up : {TRUE}, latency : {0}]

\* the arrival times of a burst, counted from the deployment: at once, when
\* the first window ends, and right after it
BurstSteps == {RL_WINDOW_MS, RL_WINDOW_MS + 1}

FeedDeployed(stores) ==
    /\ now = FeedClockMs
    /\ ScorerIdle
    /\ AnalyzerIdle
    /\ AppIdle
    /\ SECRET = None
    /\ seenSet = {}
    /\ launchesList \in stores
    /\ hooks = <<>>
    /\ pushed = <<>>
    /\ RL = EmptyMap
    /\ CACHE = EmptyCache
    /\ ONCHAIN = EmptyMap
    /\ served = None
    /\ admitted = EmptyMap
    /\ lookupFailed = {}

InitFeed == FeedDeployed(StoreSamples)
InitRate == FeedDeployed({<<>>})

\* the number of requests handled so far
Handled == IF served = None THEN 0 ELSE served.seq

\* history: the admissions of the last RL_WINDOW_MS, per ip
Prune(adm, clock) ==
    [ip \in DOMAIN adm |-> SelectSeq(adm[ip], LAMBDA a : a >= clock - RL_WINDOW_MS)]

Admit(adm, ip, at) ==
    MapPut(adm, ip, IF MapHas(adm, ip) THEN Append(adm[ip], at) ELSE <<at>>)

\* One invocation of the handler, from the arrival of the request to its response
Request(events, envs, max) ==
    /\ Handled < max
    /\ \E event \in events, env \in envs :
       \E r \in {Handler(event, now, env, RL, CACHE, ONCHAIN, launchesList)} :
          LET resp == r.response
          IN /\ RL' = r.RL
             /\ CACHE' = r.CACHE
             /\ ONCHAIN' = r.ONCHAIN
             /\ now' = r.clock
             /\ served' = resp @@ [seq |-> Handled + 1, done |-> r.clock,
                                   query |-> event.queryStringParameters]
             /\ admitted' = Prune(IF resp.statusCode = 429 THEN admitted
                                  ELSE Admit(admitted, resp.ip, resp.at), r.clock)
             /\ lookupFailed' =
                   (lookupFailed \ {resp.queries[i].mint : i \in DOMAIN resp.queries})
                   \cup resp.failed
    /\ UNCHANGED <<varsScorer, varsAnalyzer, varsApp, varsHook>>

\* Time passes up to the arrival of the next request, dt after origin
Elapse(origin, steps) ==
    /\ \E dt \in steps :
          /\ origin + dt > now
          /\ now' = origin + dt
    /\ admitted' = Prune(admitted, now')
    /\ UNCHANGED <<varsScorer, varsAnalyzer, varsApp, varsHook,
                   RL, CACHE, ONCHAIN, served, lookupFailed>>

FeedRequest == Request(FeedEvents, FeedEnvs, MaxRequests)
FeedElapse ==
    /\ served # None
    /\ Handled < MaxRequests
    /\ Elapse(served.at, FeedSteps)
NextFeed == FeedRequest \/ FeedElapse
SpecFeed == InitFeed /\ [][NextFeed]_vars

BurstRequest == Request(BurstEvents, BurstEnvs, MaxBurst)
BurstElapse ==
    /\ Handled < MaxBurst
    /\ Elapse(FeedClockMs, BurstSteps)
NextRate == BurstRequest \/ BurstElapse
SpecRate == InitRate /\ [][NextRate]_vars

(***************************************************************************)
(* C15 (as stated): the rate limit is a sliding window: within any         *)
(* interval of RL_WINDOW_MS at most RL_MAX requests of one IP are admitted *)
(* (the others get 429).                                                   *)
(***************************************************************************)
\* the number of requests of ip admitted at or after the time from
AdmittedFrom(ip, from) ==
    IF MapHas(admitted, ip) THEN Len(SelectSeq(admitted[ip], LAMBDA a : a >= from)) ELSE 0

C15_SlidingWindow ==
    admitted # None =>
        \A ip \in DOMAIN admitted : AdmittedFrom(ip, now - RL_WINDOW_MS + 1) <= RL_MAX

(***************************************************************************)
(* C15 (amended): the rate limit counts per fixed window.  The window of   *)
(* an IP opens with its first request after the previous window's end and  *)
(* ends RL_WINDOW_MS later; at most RL_MAX requests of the IP are admitted *)
(* in one window, a request is answered 429 exactly when it is beyond the  *)
(* RL_MAX-th of its window, and a 429 reads neither the store nor the      *)
(* chain and leaves both caches as they were.                              *)
(***************************************************************************)
C15_FixedWindow ==
    RL # None =>
        /\ \A ip \in DOMAIN RL : AdmittedFrom(ip, RL[ip].resetAt - RL_WINDOW_MS) <= RL_MAX
        /\ served # None =>
              /\ served.statusCode = 429 <=> RL[served.ip].n > RL_MAX
              /\ served.statusCode = 429 =>
                    /\ served.storeReads = 0
                    /\ served.queries = <<>>
                    /\ CACHE = served.cacheBefore
                    /\ ONCHAIN = served.onchainBefore

\* a request refused after RL_MAX requests of its IP were admitted in the window
C15_Witness ==
    /\ served # None
    /\ served.statusCode = 429
    /\ AdmittedFrom(served.ip, RL[served.ip].resetAt - RL_WINDOW_MS) = RL_MAX

(***************************************************************************)
(* C16: the response cache.  An admitted request arriving less than        *)
(* CACHE_TTL_MS after the timestamp of the last successful build is        *)
(* answered with the cached payload, reading neither the store nor the     *)
(* chain; one arriving CACHE_TTL_MS or more after it (or before any build) *)
(* rebuilds the payload; a build that fails answers 500 and leaves the     *)
(* cache as it was, so no failure is ever cached or served as a hit.       *)
(***************************************************************************)
AdmittedRequest == served # None /\ served.statusCode # 429

BuiltBefore == served.cacheBefore.payload # Null

SinceLastBuild == served.at - served.cacheBefore.at

C16_ResponseCache ==
    /\ AdmittedRequest =>
          IF BuiltBefore /\ SinceLastBuild < CACHE_TTL_MS
          THEN /\ served.statusCode = 200
               /\ served.xcache = "HIT"
               /\ served.body = served.cacheBefore.payload
               /\ served.storeReads = 0
               /\ served.queries = <<>>
               /\ CACHE = served.cacheBefore
               /\ ONCHAIN = served.onchainBefore
          ELSE /\ served.storeReads = 1
               /\ served.statusCode \in {200, 500}
               /\ served.statusCode = 200 =>
                     /\ served.xcache = "MISS"
                     /\ served.body.updatedUTC >= served.at
                     /\ CACHE = [at |-> served.at, payload |-> served.body]
               /\ served.statusCode = 500 =>
                     /\ served.xcache # "HIT"
                     /\ CACHE = served.cacheBefore
    /\ (CACHE # None /\ CACHE.payload # Null) => CACHE.payload.ok

\* a rebuild by the request that arrives exactly CACHE_TTL_MS after the last build
C16_Witness ==
    /\ AdmittedRequest
    /\ BuiltBefore
    /\ SinceLastBuild = CACHE_TTL_MS
    /\ served.xcache = "MISS"
    /\ CACHE.at = served.at

(***************************************************************************)
(* C17: in one pass the handler queries the chain only for a mint that is  *)
(* among the ONCHAIN_CHECK_MAX newest loaded launches, has a valid format, *)
(* was not queried before in the pass and had no on-chain cache entry      *)
(* younger than ONCHAIN_TTL_MS when it was looked up; so a pass makes at   *)
(* most ONCHAIN_CHECK_MAX queries, and none for a mint whose entry is      *)
(* younger than ONCHAIN_TTL_MS throughout the pass.                        *)
(***************************************************************************)
\* the trimmed mint of the i-th loaded launch ("" when it has none)
LoadedMint(i) == TrimmedOr(FieldOf(served.loaded[i], "mint"), Str(<<>>)).v

AmongNewest(mint) ==
    \E i \in 1..Min(ONCHAIN_CHECK_MAX, Len(served.loaded)) : LoadedMint(i) = mint

FreshEntryAt(mint, clock) ==
    /\ MapHas(served.onchainBefore, mint)
    /\ clock - served.onchainBefore[mint].at < ONCHAIN_TTL_MS

C17_BoundedLookups ==
    served # None =>
        /\ \A k \in DOMAIN served.queries :
              LET q == served.queries[k] IN
              /\ AmongNewest(q.mint)
              /\ isValidPubkey(Str(q.mint))
              /\ \A h \in DOMAIN served.queries : h # k => served.queries[h].mint # q.mint
              /\ ~FreshEntryAt(q.mint, q.at)
        /\ Len(served.queries) <= ONCHAIN_CHECK_MAX
        /\ \A i \in 1..Min(ONCHAIN_CHECK_MAX, Len(served.loaded)) :
              FreshEntryAt(LoadedMint(i), served.done) =>
                  \A k \in DOMAIN served.queries : served.queries[k].mint # LoadedMint(i)

\* a pass over more than ONCHAIN_CHECK_MAX launches with distinct valid mints
\* and no cache entry, which queries the chain for the newest of them only
C17_Witness ==
    /\ served # None
    /\ Len(served.loaded) > ONCHAIN_CHECK_MAX
    /\ Len(served.queries) = ONCHAIN_CHECK_MAX
    /\ isValidPubkey(Str(LoadedMint(Len(served.loaded))))
    /\ ~MapHas(ONCHAIN, LoadedMint(Len(served.loaded)))

(***************************************************************************)
(* C18: an item whose mint's latest upstream lookup failed is scored as    *)
(* on-chain unavailable (the +8 reason) and not as mint account not found  *)
(* (the +45 reason), in the pass of the failure and in the later passes    *)
(* that take the mint from the on-chain cache; and a failed lookup never   *)
(* fails the call.                                                         *)
(***************************************************************************)
UnavailableReason == "On-chain mint checks unavailable (RPC error/limit) - treat as unknown"
NotFoundReason == "On-chain: mint account not found (could be malformed or not finalized)"

HasReason(entry, text) == \E j \in DOMAIN entry.reasons : entry.reasons[j] = text

\* the entries of the payload just built whose mint's latest lookup failed
LookupFailedEntries ==
    IF served # None /\ served.xcache = "MISS"
    THEN {i \in DOMAIN served.body.items :
             /\ served.body.items[i].mint # Null
             /\ served.body.items[i].mint.v \in lookupFailed}
    ELSE {}

C18_FailedLookupUnavailable ==
    /\ \A i \in LookupFailedEntries :
          /\ HasReason(served.body.items[i], UnavailableReason)
          /\ ~HasReason(served.body.items[i], NotFoundReason)
    /\ (served # None /\ served.failed # {}) => served.statusCode = 200

(***************************************************************************)
(* The batch of a build.  scoreTokenV1 reads every field of a row behind a *)
(* typeof test or inside a try block, so it returns an entry for every row *)
(* loadLaunches lets through, whatever its shape: a build answers 200 with *)
(* one well-formed entry per loaded row, and a row without a usable mint   *)
(* gets the terminal entry (100, unknown, "Missing mint").  No state of    *)
(* the model has a scoreTokenV1 call that throws.                          *)
(***************************************************************************)
EveryRowScored ==
    (served # None /\ served.storeReads = 1 /\ served.statusCode = 200) =>
        /\ served.body.count = Len(served.loaded)
        /\ Len(served.body.items) = Len(served.loaded)
        /\ \A i \in DOMAIN served.body.items :
              LET entry == served.body.items[i] IN
              /\ WellFormedScore(entry)
              /\ LoadedMint(i) = <<>> =>
                    /\ entry.score = 100
                    /\ entry.verdict = "unknown"
                    /\ entry.reasons = <<"Missing mint">>
              /\ LoadedMint(i) # <<>> => entry.mint = Str(LoadedMint(i))

\* a build whose rows include JSON values that are not launch objects
RowsOfUnexpectedShape ==
    /\ served # None
    /\ served.statusCode = 200
    /\ \E i \in DOMAIN served.loaded : ~IsObjectRow(served.loaded[i])
    /\ \E i \in DOMAIN served.loaded :
          IsObjectRow(served.loaded[i]) /\ "timestamp" \notin DOMAIN served.loaded[i]

(***************************************************************************)
(* Scoring a record again, later                                           *)
(***************************************************************************)
MaxRescoreMs == 2000
RescoreSteps == {1000, 2000}

InitRescore ==
    /\ InitScore
    /\ item # None
    /\ item.uri = Str(UrlHttps)
    /\ item.creatorHex = Str(Rep("a", 64))

\* Another call of scoreTokenV1 (v1.1.0) on the same record and the same
\* on-chain record, at a later Date.now()
Rescore ==
    /\ item # None
    /\ scored # None
    /\ \E dt \in RescoreSteps :
          /\ now + dt <= ScoreClockMs + MaxRescoreMs
          /\ now' = now + dt
    /\ scored' = scoreTokenV1(item, onchain, now')
    /\ UNCHANGED <<item, onchain, raw, scoredLegacy, varsAnalyzer, varsServices>>

NextRescore == ScoreToken \/ Rescore
SpecRescore == InitRescore /\ [][NextRescore]_vars

(***************************************************************************)
(* C21: scoreTokenV1 is deterministic with no hidden input: scoring the    *)
(* same record with the same on-chain record again, at any other           *)
(* wall-clock time, yields the same score, verdict, reasons and signals.   *)
(***************************************************************************)
C21_Deterministic ==
    [][(scored # None /\ scored' # None /\ item' = item /\ onchain' = onchain) =>
           /\ scored'.score = scored.score
           /\ scored'.verdict = scored.verdict
           /\ scored'.reasons = scored.reasons
           /\ scored'.signals = scored.signals]_vars

(***************************************************************************)
(* C22: monotonicity of the launch score.  For every record and on-chain   *)
(* record, turning one well-formed field into a defective one (removing    *)
(* the name, symbol, uri, creatorHex, signature or timestamp, making the   *)
(* mint format invalid, setting the mayhem flag) with everything else      *)
(* equal never yields a lower score.  The same for the fields of the       *)
(* v1.0.0 scorer (mint, pumpUrl, firstSeenUTC, source).                    *)
(***************************************************************************)
DefectiveFields ==
    {"mint", "name", "symbol", "uri", "creatorHex", "signature", "timestamp", "isMayhem"}

\* the field is one the scorer adds no points for
WellFormedField(it, f) ==
    CASE f = "mint" -> isValidPubkey(mintOf(it))
      [] f = "name" -> Truthy(TrimmedOr(it.name, Null))
      [] f = "symbol" -> Truthy(TrimmedOr(it.symbol, Null))
      [] f = "uri" -> Truthy(safeHttpUrl(it.uri))
      [] f = "creatorHex" -> /\ Truthy(TrimmedOr(it.creatorHex, Null))
                             /\ TestCreatorHex(TrimmedOr(it.creatorHex, Null).v)
      [] f = "signature" -> it.signature.t = "string" /\ Truthy(it.signature)
      [] f = "timestamp" -> IsNumber(it.timestamp) /\ Truthy(it.timestamp)
                            /\ Truthy(toISO(TimesThousand(it.timestamp)))
      [] f = "isMayhem" -> it.isMayhem # Bool(TRUE)

\* the record with the field made defective
WithDefect(it, f) ==
    CASE f = "mint" -> [it EXCEPT !.mint = Str(Rep("0", 32))]
      [] f = "isMayhem" -> [it EXCEPT !.isMayhem = Bool(TRUE)]
      [] OTHER -> [it EXCEPT ![f] = Undefined]

LegacyDefectiveFields == {"mint", "pumpUrl", "firstSeenUTC", "source"}

LegacyWellFormedField(r, f) ==
    CASE f = "mint" -> isValidBase58Mint(r.mint)
      [] f = "pumpUrl" -> Truthy(safeHttpUrl(r.pumpUrl))
      [] f = "firstSeenUTC" -> Truthy(toISODateLike(r.firstSeenUTC))
      [] f = "source" -> Truthy(TrimmedOr(r.source, Str(<<>>)))

LegacyWithDefect(r, f) ==
    IF f = "mint" THEN [r EXCEPT !.mint = Str(Rep("0", 32))]
    ELSE [r EXCEPT ![f] = Undefined]

C22_Monotone ==
    /\ scored # None =>
          \A f \in DefectiveFields :
              WellFormedField(item, f) =>
                  scoreTokenV1(WithDefect(item, f), onchain, now).score >= scored.score
    /\ scoredLegacy # None =>
          \A f \in LegacyDefectiveFields :
              LegacyWellFormedField(raw, f) =>
                  scoreTokenV1_v100(LegacyWithDefect(raw, f)).score >= scoredLegacy.score

\* a record stamped in the future, scored with the points of a future
\* timestamp, whose score stays below the cap when the timestamp is removed
C22_Witness ==
    /\ scored # None
    /\ WellFormedField(item, "timestamp")
    /\ \E k \in DOMAIN scored.reasons :
          scored.reasons[k] = "Timestamp is in the future (clock skew or malformed event)"
    /\ scored.score < scoreTokenV1(WithDefect(item, "timestamp"), onchain, now).score
    /\ scoreTokenV1(WithDefect(item, "timestamp"), onchain, now).score < 100

(***************************************************************************)
(* C23 (as stated): creator reuse is scored by the tiers of the creator's  *)
(* frequency in the batch: a creator with 11 launches in the batch adds    *)
(* +30 to each of its items, with 10 or 6 launches +20, with 3 launches    *)
(* +10 and with 2 launches +0.                                             *)
(***************************************************************************)
\* the number of loaded launches that have the creator of the i-th
LoadedFrequency(i) == CreatorFrequency(served.loaded, i)

\* two loaded launches that differ in nothing but their well-formed creators
SameButCreator(i, j) ==
    /\ IsObjectRow(served.loaded[i])
    /\ IsObjectRow(served.loaded[j])
    /\ WellFormedField(AsItem(served.loaded[i]), "creatorHex")
    /\ WellFormedField(AsItem(served.loaded[j]), "creatorHex")
    /\ [served.loaded[i] EXCEPT !.creatorHex = Null]
         = [served.loaded[j] EXCEPT !.creatorHex = Null]

Built == served # None /\ served.xcache = "MISS"

SuspiciousScheme(u) == u.t = "string" /\ u.v \in {UrlData, UrlJavascript}
LongQuery(u) == u.t = "string" /\ u.v = UrlLongQuery

MissingUriReason == "Missing/invalid metadata URI"

SameScoring(a, b) ==
    a.score = b.score /\ a.verdict = b.verdict /\ a.reasons = b.reasons

IntegrityFields == {"signature", "name", "symbol", "uri", "mint"}

IntegrityReason(f) ==
    CASE f = "signature" -> "Missing transaction signature"
      [] f = "name" -> "Missing token name in create_v2 payload"
      [] f = "symbol" -> "Missing token symbol in create_v2 payload"
      [] f = "uri" -> "Missing/invalid metadata URI"
      [] f = "mint" -> "Mint format looks invalid (base58/length check failed)"

InReasons(r, s) == \E k \in DOMAIN s.reasons : s.reasons[k] = r

\* the defect of field f costs exactly pts points and brings its reason
Charges(f, pts) ==
    LET worse == scoreTokenV1(WithDefect(item, f), onchain, now) IN
    (WellFormedField(item, f) /\ worse.score < 100) =>
        /\ worse.score = scored.score + pts
        /\ InReasons(IntegrityReason(f), worse)
        /\ ~InReasons(IntegrityReason(f), scored)

\* a URI that parses over plain http costs pts points more than over https
ChargesPlainHttp(pts) ==
    LET secure == scoreTokenV1([item EXCEPT !.uri = Str(UrlHttps)], onchain, now) IN
    (item.uri = Str(UrlHttp) /\ scored.score < 100) =>
        scored.score = secure.score + pts

(* C25 (as stated): missing signature +10, missing name +10, missing       *)
(* symbol +10, missing or unparseable URI +15 (+10 if the URI parses but   *)
(* is not HTTPS), invalid mint +55, each with its reason.                  *)
C25_StatedPoints ==
    (scored # None /\ scored.mint # Null) =>
        /\ Charges("signature", 10)
        /\ Charges("name", 10)
        /\ Charges("symbol", 10)
        /\ Charges("uri", 15)
        /\ ChargesPlainHttp(10)
        /\ Charges("mint", 55)

(* C25 (amended): missing signature +6, missing name +10, missing symbol   *)
(* +8, missing or invalid URI +12 (a URI that parses over plain http is    *)
(* accepted like one over https and costs nothing), invalid mint +55,      *)
(* each with its reason.                                                   *)
C25_CodePoints ==
    (scored # None /\ scored.mint # Null) =>
        /\ Charges("signature", 6)
        /\ Charges("name", 10)
        /\ Charges("symbol", 8)
        /\ Charges("uri", 12)
        /\ ChargesPlainHttp(0)
        /\ Charges("mint", 55)

\* a record over plain http, well formed in the five fields, whose score
\* stays below the cap with any one of the defects
C25_Witness ==
    /\ scored # None
    /\ item.uri = Str(UrlHttp)
    /\ \A f \in IntegrityFields :
          /\ WellFormedField(item, f)
          /\ scoreTokenV1(WithDefect(item, f), onchain, now).score < 100

(***************************************************************************)
(* newAnalysis() of src/app.js, the handler of the Cancel button of the    *)
(* loading view and of the New Analysis button of the result view.         *)
(***************************************************************************)
NewAnalysis ==
    /\ state # None
    /\ state' = [state EXCEPT !.view = "home", !.result = Null, !.error = Null,
                              !.tokenAddress = Str(<<>>)]
    /\ runs' = [i \in DOMAIN runs |->
                   IF state.view = "loading" /\ runs[i].pc # "done"
                   THEN [runs[i] EXCEPT !.cancelled = TRUE]
                   ELSE runs[i]]
    /\ UNCHANGED <<now, varsScorer, varsAnalyzer, varsHook, varsFeed, controllers,
                   localStorage, loads>>

NextCancel == NextApp \/ NewAnalysis

SpecCancel == InitApp /\ [][NextCancel]_vars

(***************************************************************************)
(* C26: cancelling.  newAnalysis() called while the view is 'loading'      *)
(* leaves the view 'home' with a null result, and no later step of an      *)
(* invocation of runAnalysis that was pending at that moment switches the  *)
(* view to 'result', sets a result or an error, or adds a history entry.   *)
(***************************************************************************)
C26_CancelledIsSilent ==
    [][/\ (\E i \in DOMAIN runs : ~runs[i].cancelled /\ runs'[i].cancelled) =>
              (state'.view = "home" /\ state'.result = Null)
       /\ \A i \in DOMAIN runs :
             (runs[i].cancelled /\ runs'[i].pc # runs[i].pc) =>
                 Displayed(state') = Displayed(state)]_vars

(***************************************************************************)
(* The recent-analyses history of src/app.js.  ShowResult is the end of a  *)
(* successful runAnalysis (state.result = result; state.view = 'result';   *)
(* saveRecentAnalysis(result)); two results are a millisecond apart and    *)
(* their outcomes alternate.  setItem throws only while nothing is stored  *)
(* (storage disabled or full from the start).  Reload is a reload of the   *)
(* page: the state object is built anew and initApp() calls                *)
(* loadRecentAnalyses().                                                   *)
(***************************************************************************)
\* Number of results shown in a run of the model
MaxSaves == 7

RecentAddresses == {Str(Rep(c, 32)) : c \in {"A", "B", "C", "D", "E", "F"}}

OutcomeAt(clock) ==
    IF clock % 2 = 0 THEN [verdict |-> "ENTER", confidence |-> "HIGH"]
    ELSE [verdict |-> "EXIT", confidence |-> "LOW"]

RecentResult(a, o) ==
    [input |-> a, tokenInfo |-> [symbol |-> Undefined],
     verdict |-> o.verdict, confidence |-> o.confidence]

ShowResult ==
    /\ state # None
    /\ now < AnalyzeClockMs + MaxSaves
    /\ now' = now + 1
    /\ \E a \in RecentAddresses, throws \in BOOLEAN :
          LET result == RecentResult(a, OutcomeAt(now'))
              recent == saveRecentAnalysis(state.recentAnalyses, result, now')
          IN /\ throws => localStorage = Null
             /\ state' = [state EXCEPT !.result = result,
                                       !.view = "result",
                                       !.recentAnalyses = recent]
             /\ localStorage' = setItem(localStorage, recent, throws)
    /\ UNCHANGED <<varsScorer, varsAnalyzer, varsHook, varsFeed, controllers, runs, loads>>

Reload ==
    /\ state # None
    /\ state.result # Null
    /\ state' = [InitialState EXCEPT
                    !.recentAnalyses = loadRecentAnalyses(<<>>, localStorage)]
    /\ UNCHANGED <<now, varsScorer, varsAnalyzer, varsHook, varsFeed, controllers, runs,
                   localStorage, loads>>

NextRecent == ShowResult \/ Reload

SpecRecent == InitApp /\ [][NextRecent]_vars

(***************************************************************************)
(* C29: after any sequence of saveRecentAnalysis calls from an empty       *)
(* history, state.recentAnalyses holds at most 5 entries, no two with the  *)
(* same address, ordered most recently saved first, and the entry of the   *)
(* result just saved is at index 0 with that result's verdict and          *)
(* confidence.                                                             *)
(***************************************************************************)
C29_RecentHistory ==
    state # None =>
        LET recent == state.recentAnalyses IN
        /\ Len(recent) <= 5
        /\ \A i, j \in DOMAIN recent :
              i < j => /\ recent[i].address # recent[j].address
                       /\ recent[i].timestamp > recent[j].timestamp
        /\ state.result # Null =>
              /\ Len(recent) >= 1
              /\ recent[1].address = state.result.input
              /\ recent[1].verdict = state.result.verdict
              /\ recent[1].confidence = state.result.confidence
              /\ recent[1].timestamp = now

\* the seventh result: five entries are kept, the entries of the first and
\* of the third result are gone (an address saved again, or the oldest entry
\* dropped)
C29_Witness ==
    /\ state # None
    /\ state.result # Null
    /\ now = AnalyzeClockMs + 7
    /\ Len(state.recentAnalyses) = 5
    /\ state.recentAnalyses[5].timestamp = AnalyzeClockMs + 2
    /\ state.recentAnalyses[4].timestamp = AnalyzeClockMs + 4

(***************************************************************************)
(* The opportunity pool of src/app.js.  An invocation of                   *)
(* loadOpportunityPool is at "fetching" (fetchOpportunityPool pending) or  *)
(* "done"; its outcome is "skipped" (returned at the poolLoading test),    *)
(* "pending", "resolved" or "rejected".  The first invocation is the       *)
(* initial load of initApp(), the later ones come from the refresh button  *)
(* and the refresh timer.  fetchOpportunityPool (src/adapters/pumpfun.js)  *)
(* resolves with an array of mints or rejects.  The field caller of an     *)
(* invocation records who made the call.                                   *)
(***************************************************************************)
\* Number of loadOpportunityPool invocations of a run of the model
MaxLoads == 4

PoolSamples == {<<>>, <<ValidMint>>}

\* if (state.poolLoading) return, with the test left out
PoolBusyNever(st) == FALSE

\* if (state.poolLoading) return
PoolBusy(st) == st.poolLoading

\* loadOpportunityPool(forceRefresh) up to its await
loadOpportunityPool(forceRefresh, caller) ==
    IF PoolBusy(state)
    THEN /\ loads' = Append(loads, [forceRefresh |-> forceRefresh, caller |-> caller,
                                    pc |-> "done", outcome |-> "skipped"])
         /\ UNCHANGED state
    ELSE /\ loads' = Append(loads, [forceRefresh |-> forceRefresh, caller |-> caller,
                                    pc |-> "fetching", outcome |-> "pending"])
         /\ state' = [state EXCEPT !.poolLoading = TRUE]

\* initApp() calls loadOpportunityPool(); the refresh buttons call
\* loadOpportunityPool(true)
LoadOpportunityPool ==
    /\ state # None
    /\ Len(loads) < MaxLoads
    /\ IF loads = <<>> THEN loadOpportunityPool(FALSE, "initApp")
       ELSE loadOpportunityPool(TRUE, "button")
    /\ UNCHANGED <<now, varsScorer, varsAnalyzer, varsHook, varsFeed, controllers, runs,
                   localStorage>>

\* the callback of setInterval in startPoolRefreshTimer
PoolRefreshTick ==
    /\ state # None
    /\ loads # <<>>
    /\ Len(loads) < MaxLoads
    /\ state.view = "home" /\ ~state.poolLoading
    /\ loadOpportunityPool(TRUE, "timer")
    /\ UNCHANGED <<now, varsScorer, varsAnalyzer, varsHook, varsFeed, controllers, runs,
                   localStorage>>

\* fetchOpportunityPool resolves: the try block and the finally block
PoolFetchResolved ==
    /\ \E i \in DOMAIN loads, pool \in PoolSamples :
          /\ loads[i].pc = "fetching"
          /\ loads' = [loads EXCEPT ![i].pc = "done", ![i].outcome = "resolved"]
          /\ state' = [state EXCEPT !.opportunityPool = pool,
                                    !.poolLastRefresh = now,
                                    !.poolLoading = FALSE]
    /\ UNCHANGED <<now, varsScorer, varsAnalyzer, varsHook, varsFeed, controllers, runs,
                   localStorage>>

\* fetchOpportunityPool rejects: the catch block and the finally block
PoolFetchRejected ==
    /\ \E i \in DOMAIN loads :
          /\ loads[i].pc = "fetching"
          /\ loads' = [loads EXCEPT ![i].pc = "done", ![i].outcome = "rejected"]
          /\ state' = [state EXCEPT !.poolLoading = FALSE]
    /\ UNCHANGED <<now, varsScorer, varsAnalyzer, varsHook, varsFeed, controllers, runs,
                   localStorage>>

NextPool ==
    \/ LoadOpportunityPool
    \/ PoolRefreshTick
    \/ PoolFetchResolved
    \/ PoolFetchRejected
    \/ RunAnalysis

SpecPool == InitApp /\ [][NextPool]_vars

(***************************************************************************)
(* C30: pool loading is single-flight.  At most one fetchOpportunityPool   *)
(* call is in flight at any time, and state.poolLoading is true exactly    *)
(* while one is; a loadOpportunityPool call made while state.poolLoading   *)
(* is true returns without fetching and without touching the state; when a *)
(* load settles, resolved or rejected, state.poolLoading is false, and a   *)
(* rejected load leaves the pool and the time of its last refresh as they  *)
(* were.                                                                   *)
(***************************************************************************)
InFlight == {i \in DOMAIN loads : loads[i].pc = "fetching"}

C30_SingleFlight ==
    /\ [](state # None =>
             /\ Cardinality(InFlight) <= 1
             /\ state.poolLoading <=> InFlight # {})
    /\ [][/\ (state.poolLoading /\ Len(loads') = Len(loads) + 1) =>
                 (loads'[Len(loads')].outcome = "skipped" /\ state' = state)
          /\ \A i \in DOMAIN loads :
                (loads[i].pc = "fetching" /\ loads'[i].pc = "done") =>
                    /\ ~state'.poolLoading
                    /\ loads'[i].outcome = "rejected" =>
                          /\ state'.opportunityPool = state.opportunityPool
                          /\ state'.poolLastRefresh = state.poolLastRefresh]_vars

\* after a load that filled the pool and one that failed, a third load is
\* fetching and a fourth call was turned away
C30_Witness ==
    /\ state # None
    /\ state.opportunityPool # <<>>
    /\ state.poolLoading
    /\ \E i, j, k, l \in DOMAIN loads :
          /\ loads[i].outcome = "resolved"
          /\ loads[j].outcome = "rejected"
          /\ loads[k].pc = "fetching"
          /\ loads[l].outcome = "skipped" /\ k < l
    /\ \E t \in DOMAIN loads : loads[t].caller = "timer"

(***************************************************************************)
(* C27: every 200 response respects the limit of its own request (clamped  *)
(* to 1..200, default 50): it carries the scored versions of the           *)
(* min(limit, stored) newest launches, also when the request is served     *)
(* within CACHE_TTL_MS of an earlier request that used another limit.      *)
(***************************************************************************)
OwnLimit == LimitOf(served.query)

\* the launches among the n newest rows of the store
NewestStored(n) == loadLaunches(n, launchesList)

C27_OwnLimitRespected ==
    (served # None /\ served.statusCode = 200) =>
        LET rows == NewestStored(OwnLimit) IN
        /\ Len(rows) <= Min(OwnLimit, Len(launchesList))
        /\ served.body.count = Len(rows)
        /\ Len(served.body.items) = Len(rows)
        /\ \A i \in DOMAIN rows :
              served.body.items[i].mint = ScoreLaunch(rows[i], EmptyMap, served.at).mint

(***************************************************************************)
(* C28: seen-set and launches list stay consistent under store failures.   *)
(* Every dedupe key in the seen-set is the key of a launch that was        *)
(* appended to the list, or of the launch an invocation still running is   *)
(* about to append: when an invocation has ended, normally or with a 500,  *)
(* no key it added is left without its launch, so a redelivery of a launch *)
(* that was not stored is not taken for a duplicate.                       *)
(***************************************************************************)
Appended(key) == \E i \in DOMAIN pushed : KeyOfLaunch(pushed[i]) = key

AboutToAppend(key) ==
    \E i \in DOMAIN hooks : hooks[i].pc = "lpush" /\ hooks[i].dedupeKey = key

C28_SeenImpliesStored ==
    \A key \in seenSet : Appended(key) \/ AboutToAppend(key)

=============================================================================
